---------------------------- MODULE Spec2Model ----------------------------
(***************************************************************************)
(* Model of the DataDepot question-answering service                       *)
(* (dishadineshh/DEPOBOTORI): the /ask router of back/server.py and        *)
(* server.py, the answer sanitizer, the Asana TTL cache and the OpenAI     *)
(* POST retry loop.                                                        *)
(*                                                                         *)
(* Text is a sequence of one-character strings, so that the regular        *)
(* expressions of the code are computed character by character.  The      *)
(* non-ASCII characters of the code are atoms: BULLET, ELLIPSIS, RSQUO,    *)
(* LDQUO, RDQUO and EMDASH.                                                *)
(***************************************************************************)
EXTENDS Integers, Sequences, FiniteSets, TLC

VARIABLES
    san_text,      \* _sanitize_answer_format: the `text` argument of the last call
    san_max,       \* _sanitize_answer_format: the `max_bullets` argument
    san_out,       \* _sanitize_answer_format: the clean_text it returned
    san_pc         \* "idle" (no call), "call" (called, not returned) or "done"

sanVars == <<san_text, san_max, san_out, san_pc>>

VARIABLES
    rt_impl,       \* _post_with_retry: "back" (back/openai_integration.py) or "root"
    rt_max,        \* the max_retries argument
    rt_i,          \* the loop variable i
    rt_pc,         \* "idle", "loop", "sleep", "returned" or "raised"
    rt_posts,      \* number of requests.post calls issued so far
    rt_statuses,   \* status codes of the responses received, in order
    rt_sleeps,     \* the time.sleep arguments so far, each a fraction <<num, den>>
    rt_last,       \* back only: status of `last` (0 for None)
    rt_result      \* <<"response", status>> returned, or <<error class, status>> raised

retryVars == <<rt_impl, rt_max, rt_i, rt_pc, rt_posts, rt_statuses, rt_sleeps, rt_last, rt_result>>

VARIABLES
    cfg,           \* the server run and its switches, read from the environment at
                   \* import: [app |-> "back" (back/server.py) or "root" (server.py),
                   \* web |-> ENABLE_WEB_SEARCH, ga |-> ENABLE_GA,
                   \* asana |-> bool(ASANA_PAT), show_sources |-> SHOW_SOURCES]
    cache,         \* asana_integration._cache: "tasks:<gid>" -> <<>> (absent) or <<entry>>
    now,           \* time.time(), in units of half the default ASANA_CACHE_TTL
    op_name,       \* the handler or function serving a call: "none" between calls
    op_arg,        \* its argument (a project gid, a request body)
    http,          \* the Asana HTTP requests it issued, in order
    calls,         \* its calls of web_answer_updated, asana_answer, _maybe_answer_ga,
                   \* the hashtag functions, embed_text, search and chat_answer
    tried,         \* /ask: the routes it attempted, in order, each with its outcome
    resp           \* what it returned (<<>> while none)

srvVars == <<cfg, cache, now, op_name, op_arg, http, calls, tried, resp>>

VARIABLES
    ch_text,       \* _chunk: the `text` argument of the call
    ch_size,       \* its `size` argument
    ch_overlap,    \* its `overlap` argument
    ch_out,        \* the chunks the generator yielded, in order
    ch_pc          \* "idle" (no call), "call" (called, not exhausted) or "done"

chunkVars == <<ch_text, ch_size, ch_overlap, ch_out, ch_pc>>

VARIABLES
    ing_script,    \* the ingestion script that runs ("none": none)
    ing_corpus,    \* the corpus file it reads: <<>> (absent) or <<rows>>
    ing_row,       \* ingest_to_qdrant: how many rows main has read
    ing_meta,      \* ingest_to_qdrant: <<base_meta>> of the row being chunked
    ing_pieces,    \* ingest_to_qdrant: the pieces of that row not yet embedded
    ing_embeds,    \* the embed_text calls so far: the text, and whether it returned
    ing_pending,   \* ingest_to_qdrant: `pending`
    ing_total,     \* `total`: the points upserted so far
    ing_upserts,   \* the upsert calls so far: the points, and whether it returned
    ing_pc         \* "idle", "run", "returned" or "raised"

ingVars == <<ing_script, ing_corpus, ing_row, ing_meta, ing_pieces, ing_embeds,
             ing_pending, ing_total, ing_upserts, ing_pc>>

VARIABLES
    f_script,      \* the fetcher that runs ("none": none)
    f_in,          \* what it finds: <<files>> of the export folder, <<>> when the
                   \* folder is missing; <<report rows>> for fetch_ga_daily.py
    f_limit,       \* fetch_drive_export.py: DRIVE_DOC_CHAR_LIMIT
    f_header,      \* the fieldnames it wrote (<<>> while none)
    f_rows,        \* the rows it passed to writerow, in order
    f_file,        \* its output file: <<>> (absent) or <<text>>
    f_loaded,      \* what _load_ga_rows returned for that file
    f_pc           \* "idle", "run", "written", "exited" or "loaded"

fetchVars == <<f_script, f_in, f_limit, f_header, f_rows, f_file, f_loaded, f_pc>>

\* the state of the offline scripts
VARIABLES
    ht_in,         \* _hashtags_top: the table instagram_hashtags.csv was written
                   \* from: <<>> (no file) or <<[cols, rows]>>
    ht_csv,        \* the file: <<>> (absent) or <<its text>>
    ht_n,          \* the `n` argument of the call
    ht_rows,       \* `rows`, as _load_hashtags_rows returned them
    ht_out,        \* the text returned
    ht_pc          \* "idle" (no call), "call" or "done"

topVars == <<ht_in, ht_csv, ht_n, ht_rows, ht_out, ht_pc>>

jobVars == <<chunkVars, ingVars, fetchVars, topVars>>

-----------------------------------------------------------------------------
(* Characters and Python's str helpers                                     *)

NL == "\n"
SP == " "
BULLET == "<bullet>"
ELLIPSIS == "<ellipsis>"

\* Python's \s and str.strip() whitespace, restricted to the model's alphabet.
WhiteSpace == {SP, NL, "\t"}

UpperSeq == <<"A","B","C","D","E","F","G","H","I","J","K","L","M",
              "N","O","P","Q","R","S","T","U","V","W","X","Y","Z">>
LowerSeq == <<"a","b","c","d","e","f","g","h","i","j","k","l","m",
              "n","o","p","q","r","s","t","u","v","w","x","y","z">>

LowerCh(c) ==
    IF \E i \in 1..26 : UpperSeq[i] = c
    THEN LowerSeq[CHOOSE i \in 1..26 : UpperSeq[i] = c]
    ELSE c

Lower(t) == [i \in 1..Len(t) |-> LowerCh(t[i])]

\* t[i..] starts with p (str.startswith at an offset)
StartsWithAt(t, i, p) ==
    /\ i >= 1
    /\ i + Len(p) - 1 <= Len(t)
    /\ \A k \in 1..Len(p) : t[i + k - 1] = p[k]

\* the same, ignoring case (re.IGNORECASE); p is lower case
StartsWithAtCI(t, i, p) ==
    /\ i >= 1
    /\ i + Len(p) - 1 <= Len(t)
    /\ \A k \in 1..Len(p) : LowerCh(t[i + k - 1]) = p[k]

StartsWith(t, p) == StartsWithAt(t, 1, p)

\* Body with its parameter bound to v: a local name for a value the code
\* computes once and uses several times
With(v, Body(_)) == Body(v)

\* `p in t`
Contains(t, p) == \E i \in 1..(Len(t) + 1) : StartsWithAt(t, i, p)

\* first index j >= i with j past the end or t[j] in Stop: where a greedy
\* run of [^Stop] that starts at i ends
RunEndExcl(t, i, Stop) ==
    CHOOSE j \in i..(Len(t) + 1) :
        /\ (j = Len(t) + 1 \/ t[j] \in Stop)
        /\ \A k \in i..(j - 1) : t[k] \notin Stop

\* first index j >= i with j past the end or lower(t[j]) not in Allowed
RunEndIn(t, i, Allowed) ==
    CHOOSE j \in i..(Len(t) + 1) :
        /\ (j = Len(t) + 1 \/ LowerCh(t[j]) \notin Allowed)
        /\ \A k \in i..(j - 1) : LowerCh(t[k]) \in Allowed

\* str.lstrip(chars) / str.rstrip() / str.strip()
LStripSet(t, chars) == SubSeq(t, RunEndIn(t, 1, chars), Len(t))

RStrip(t) ==
    SubSeq(t, 1, CHOOSE n \in 0..Len(t) :
                     /\ (n = 0 \/ t[n] \notin WhiteSpace)
                     /\ \A k \in (n + 1)..Len(t) : t[k] \in WhiteSpace)

LStrip(t) == LStripSet(t, WhiteSpace)

Strip(t) == LStrip(RStrip(t))

\* first index j in i..n with P(j), n + 1 when there is none: where a scan
\* from i finds its next match
FirstFrom(i, n, P(_)) ==
    IF \E j \in i..n : P(j)
    THEN CHOOSE j \in i..n : P(j) /\ \A k \in i..(j - 1) : ~P(k)
    ELSE n + 1

RECURSIVE JoinWith(_, _)
\* sep.join(parts)
JoinWith(parts, sep) ==
    IF Len(parts) = 0 THEN <<>>
    ELSE IF Len(parts) = 1 THEN parts[1]
    ELSE parts[1] \o sep \o JoinWith(Tail(parts), sep)

RECURSIVE SplitOn(_, _)
\* str.split(sep) for a one-character sep: always at least one piece
SplitOn(t, sep) ==
    With(RunEndExcl(t, 1, {sep}), LAMBDA j :
        IF j > Len(t) THEN <<t>>
        ELSE <<SubSeq(t, 1, j - 1)>> \o SplitOn(SubSeq(t, j + 1, Len(t)), sep))

\* str.splitlines(): no piece for the empty string, none after a final newline
SplitLines(t) ==
    IF Len(t) = 0 THEN <<>>
    ELSE With(SplitOn(t, NL), LAMBDA ps :
             IF t[Len(t)] = NL THEN SubSeq(ps, 1, Len(ps) - 1) ELSE ps)

-----------------------------------------------------------------------------
(* back/server.py: the output sanitizer                                    *)

HttpColonSlashes == <<"h","t","t","p",":","/","/">>
HttpsColonSlashes == <<"h","t","t","p","s",":","/","/">>
DotCom == <<".","c","o","m">>

\* [^\s)>\]] of _URL_RE, as the characters that stop the run
UrlStop == WhiteSpace \cup {")", ">", "]"}

\* [a-z0-9\.\-] of the parenthetical-domain pattern (letters via IGNORECASE)
DomainChars == {LowerSeq[i] : i \in 1..26}
               \cup {"0","1","2","3","4","5","6","7","8","9",".","-"}

\* length of the `https?://` prefix matched at i (0: none); ci: re.IGNORECASE
SchemeLen(t, i, ci) ==
    IF ci
    THEN IF StartsWithAtCI(t, i, HttpsColonSlashes) THEN 8
         ELSE IF StartsWithAtCI(t, i, HttpColonSlashes) THEN 7 ELSE 0
    ELSE IF StartsWithAt(t, i, HttpsColonSlashes) THEN 8
         ELSE IF StartsWithAt(t, i, HttpColonSlashes) THEN 7 ELSE 0

\* _URL_RE.match at i: index after the match, 0 when there is none
UrlMatchEnd(t, i) ==
    With(SchemeLen(t, i, TRUE), LAMBDA n :
        IF n = 0 THEN 0
        ELSE With(RunEndExcl(t, i + n, UrlStop), LAMBDA e :
                 IF e > i + n THEN e ELSE 0))

\* _MD_LINK_RE.match at i: <<index after the match, group(1)>>, <<0, <<>>>> when none
MdLinkMatch(t, i) ==
    IF ~(i <= Len(t) /\ t[i] = "[") THEN <<0, <<>>>>
    ELSE With(RunEndExcl(t, i + 1, {"]"}), LAMBDA j :
         IF ~(j > i + 1 /\ j <= Len(t) /\ StartsWithAt(t, j + 1, <<"(">>))
         THEN <<0, <<>>>>
         ELSE With(SchemeLen(t, j + 2, FALSE), LAMBDA n :
              With(RunEndExcl(t, j + 2 + n, {")"}), LAMBDA e :
                  IF n > 0 /\ e > j + 2 + n /\ e <= Len(t)
                  THEN <<e + 1, SubSeq(t, i + 1, j - 1)>>
                  ELSE <<0, <<>>>>)))

\* the pattern \([a-z0-9\.\-]+\.com\) at i: index after the match, 0 when none
ParenDomainMatchEnd(t, i) ==
    IF ~(i <= Len(t) /\ t[i] = "(") THEN 0
    ELSE With(RunEndIn(t, i + 1, DomainChars), LAMBDA e :
             IF /\ e <= Len(t)
                /\ t[e] = ")"
                /\ e - (i + 1) >= 5
                /\ StartsWithAtCI(t, e - 4, DotCom)
             THEN e + 1 ELSE 0)

RECURSIVE SubMdLinks(_, _)
\* _MD_LINK_RE.sub(lambda m: m.group(1).strip(), text), scanning from i
SubMdLinks(t, i) ==
    With(FirstFrom(i, Len(t), LAMBDA k : MdLinkMatch(t, k)[1] > 0), LAMBDA j :
        IF j > Len(t) THEN SubSeq(t, i, Len(t))
        ELSE With(MdLinkMatch(t, j), LAMBDA m :
                 SubSeq(t, i, j - 1) \o Strip(m[2]) \o SubMdLinks(t, m[1])))

RECURSIVE SubUrls(_, _)
\* _URL_RE.sub("", text), scanning from i
SubUrls(t, i) ==
    With(FirstFrom(i, Len(t), LAMBDA k : UrlMatchEnd(t, k) > 0), LAMBDA j :
        IF j > Len(t) THEN SubSeq(t, i, Len(t))
        ELSE SubSeq(t, i, j - 1) \o SubUrls(t, UrlMatchEnd(t, j)))

RECURSIVE SubParenDomains(_, _)
\* re.sub(r"\([a-z0-9\.\-]+\.com\)", "", text, flags=re.IGNORECASE), from i
SubParenDomains(t, i) ==
    With(FirstFrom(i, Len(t), LAMBDA k : ParenDomainMatchEnd(t, k) > 0), LAMBDA j :
        IF j > Len(t) THEN SubSeq(t, i, Len(t))
        ELSE SubSeq(t, i, j - 1) \o SubParenDomains(t, ParenDomainMatchEnd(t, j)))

\* lines 119-124: the three substitutions, in the code's order
StripLinks(text) == SubParenDomains(SubUrls(SubMdLinks(text, 1), 1), 1)

BulletMark == <<BULLET, SP>>
EllipsisLine == <<BULLET, SP, ELLIPSIS>>

\* re.match(r"^\s*-\s+", ln): index after the match, 0 when there is none
BulletPrefixEnd(ln) ==
    With(RunEndIn(ln, 1, WhiteSpace), LAMBDA d :
        IF d <= Len(ln) /\ ln[d] = "-"
        THEN With(RunEndIn(ln, d + 1, WhiteSpace), LAMBDA e :
                 IF e > d + 1 THEN e ELSE 0)
        ELSE 0)

\* ln.startswith("###") or ln.startswith("## ")
IsHeading(ln) == StartsWith(ln, <<"#","#","#">>) \/ StartsWith(ln, <<"#","#",SP>>)

\* `if out_lines and out_lines[-1] != "": out_lines.append("")`
BlankGap(out) ==
    IF Len(out) > 0 /\ out[Len(out)] # <<>> THEN Append(out, <<>>) ELSE out

\* flush_bullets with the cut one item too late
flush_bullets_cut_late(st, max_bullets) ==
    IF Len(st.buf) = 0 THEN st
    ELSE [out |-> BlankGap(st.out)
                  \o (IF Len(st.buf) > max_bullets + 1
                      THEN SubSeq(st.buf, 1, max_bullets + 1) \o <<EllipsisLine>>
                      ELSE st.buf)
                  \o << <<>> >>,
          buf |-> <<>>]

\* flush_bullets() on the pair (out_lines, bullet_buffer)
flush_bullets(st, max_bullets) ==
    IF Len(st.buf) = 0 THEN st
    ELSE [out |-> BlankGap(st.out)
                  \o (IF Len(st.buf) > max_bullets
                      THEN SubSeq(st.buf, 1, max_bullets) \o <<EllipsisLine>>
                      ELSE st.buf)
                  \o << <<>> >>,
          buf |-> <<>>]

\* one iteration of `for ln in lines` (lines 141-155)
SanitizeLine(st, ln, max_bullets) ==
    IF IsHeading(ln)
    THEN [out |-> BlankGap(flush_bullets(st, max_bullets).out)
                  \o <<(<<"*","*">> \o Strip(LStripSet(ln, {"#", SP})) \o <<"*","*">>),
                       <<>> >>,
          buf |-> <<>>]
    ELSE IF BulletPrefixEnd(ln) > 0
    THEN With(Strip(ln), LAMBDA s :
             [out |-> st.out,
              buf |-> Append(st.buf, BulletMark \o SubSeq(s, BulletPrefixEnd(s), Len(s)))])
    ELSE IF Len(Strip(ln)) > 0
    THEN [out |-> Append(BlankGap(flush_bullets(st, max_bullets).out), Strip(ln)),
          buf |-> <<>>]
    ELSE st

RECURSIVE SanitizeLines(_, _, _)
\* the whole `for ln in lines` loop
SanitizeLines(st, lines, max_bullets) ==
    IF Len(lines) = 0 THEN st
    ELSE SanitizeLines(SanitizeLine(st, Head(lines), max_bullets), Tail(lines), max_bullets)

RECURSIVE CollapseNewlines(_)
\* re.sub(r"\n{3,}", "\n\n", s)
CollapseNewlines(s) ==
    With(RunEndExcl(s, 1, {NL}), LAMBDA j :
        IF j > Len(s) THEN s
        ELSE With(RunEndIn(s, j, {NL}), LAMBDA e :
                 SubSeq(s, 1, j - 1)
                 \o (IF e - j >= 3 THEN <<NL, NL>> ELSE SubSeq(s, j, e - 1))
                 \o CollapseNewlines(SubSeq(s, e, Len(s)))))

\* _sanitize_answer_format(text, max_bullets): the clean_text of the pair it
\* returns (the second component is always [])
sanitize_answer_format(text, max_bullets) ==
    IF Len(text) = 0 THEN <<>>
    ELSE With(SplitLines(StripLinks(text)), LAMBDA raw :
             Strip(CollapseNewlines(JoinWith(
                 flush_bullets(
                     SanitizeLines([out |-> <<>>, buf |-> <<>>],
                                   [i \in 1..Len(raw) |-> RStrip(raw[i])], max_bullets),
                     max_bullets).out,
                 <<NL>>))))

-----------------------------------------------------------------------------
(* Inputs of the sanitizer: texts made of a few fragments                  *)

MaxLinkFrags == 3
MaxLines == 4
MaxBullets == 2
MaxRun == 7
DEFAULT_MAX_BULLETS == 5

\* pieces of prose with links in them
LinkFragments ==
    { <<"h","t","t","p",":","/">>,
      <<"/","u">>,
      <<"(","a",".","c","o","m",")">>,
      <<"[","t","]","(","h","t","t","p",":","/","/","u",")">>,
      <<"H","T","T","P","s",":","/","/","u">>,
      <<SP>>,
      <<"x">> }

\* whole lines, each ended by its newline
LineFragments ==
    { <<"-",SP,"a",NL>>,
      <<SP,"-",SP,"b",NL>>,
      <<"-",SP,"h","t","t","p",":","/","/","u",NL>>,
      <<"x",NL>>,
      <<NL>>,
      <<"#","#",SP,"h",NL>> }

Digits == <<"1","2","3","4","5","6","7","8","9">>

RECURSIVE ConcatAll(_)
ConcatAll(parts) ==
    IF Len(parts) = 0 THEN <<>> ELSE Head(parts) \o ConcatAll(Tail(parts))

TextsOf(frags, n) == { ConcatAll(fs) : fs \in UNION { [1..k -> frags] : k \in 0..n } }

\* n numbered '- ' items, one per line
BulletRun(n) == ConcatAll([i \in 1..n |-> <<"-", SP, Digits[i], NL>>])

\* a run of items, a line of prose, a second run
RunTexts == { BulletRun(k) \o <<"x", NL>> \o BulletRun(m) : k \in 0..MaxRun, m \in 0..MaxRun }

\* the calls <<text, max_bullets>> the model makes
SanCalls ==
    { <<t, DEFAULT_MAX_BULLETS>> : t \in TextsOf(LinkFragments, MaxLinkFrags) \cup RunTexts }
    \cup (TextsOf(LineFragments, MaxLines) \X (1..MaxBullets))

-----------------------------------------------------------------------------
(* Specification of the sanitizer as a pure function                       *)

SanIdle ==
    /\ san_text = <<>>
    /\ san_max = DEFAULT_MAX_BULLETS
    /\ san_out = <<>>
    /\ san_pc = "idle"

SanInit ==
    /\ \E c \in SanCalls : san_text = c[1] /\ san_max = c[2]
    /\ san_out = <<>>
    /\ san_pc = "call"

\* the call _sanitize_answer_format(san_text, san_max) returns
Sanitize ==
    /\ san_pc = "call"
    /\ san_out' = sanitize_answer_format(san_text, san_max)
    /\ san_pc' = "done"
    /\ UNCHANGED <<san_text, san_max>>
    /\ UNCHANGED <<retryVars, srvVars, jobVars>>

-----------------------------------------------------------------------------
(* openai_integration.py: _post_with_retry                                 *)

MaxRetries == 3

\* `if r.status_code in (429, 500, 502, 503, 504)`
RetryStatuses == {429, 500, 502, 503, 504}

\* the status codes the model lets the server answer with
Statuses == {200, 302, 404} \cup RetryStatuses

\* requests' Response.raise_for_status raises HTTPError for 4xx and 5xx
RaisesForStatus(status) == status >= 400 /\ status < 600

RECURSIVE Pow(_, _)
Pow(b, e) == IF e = 0 THEN 1 ELSE b * Pow(b, e - 1)

\* `backoff ** (i + 1)` with backoff = 1.5, as the fraction 3^(i+1) / 2^(i+1)
Backoff(i) == <<Pow(3, i + 1), Pow(2, i + 1)>>

\* AttemptOutcome that sleeps after the last attempt too
AttemptOutcomeSleepsLast(status, i, max_retries) ==
    IF status \in RetryStatuses /\ i < max_retries THEN "sleep"
    ELSE IF RaisesForStatus(status) THEN "raise"
    ELSE "return"

\* AttemptOutcome that hands back the last response without raise_for_status
AttemptOutcomeReturnsLast(status, i, max_retries) ==
    IF status \in RetryStatuses /\ i < max_retries - 1 THEN "sleep"
    ELSE IF RaisesForStatus(status) /\ status \notin RetryStatuses THEN "raise"
    ELSE "return"

\* what iteration i does with a response (lines 49-55 of back, 178-183 of
\* root): "sleep" and continue, "raise" from raise_for_status, or "return"
AttemptOutcome(status, i, max_retries) ==
    IF status \in RetryStatuses /\ i < max_retries - 1 THEN "sleep"
    ELSE IF RaisesForStatus(status) THEN "raise"
    ELSE "return"

RetryIdle ==
    /\ rt_impl = "back"
    /\ rt_max = 0
    /\ rt_i = 0
    /\ rt_pc = "idle"
    /\ rt_posts = 0
    /\ rt_statuses = <<>>
    /\ rt_sleeps = <<>>
    /\ rt_last = 0
    /\ rt_result = <<>>

\* a call _post_with_retry(url, payload, timeout, max_retries) has begun
RetryInit ==
    /\ rt_impl \in {"back", "root"}
    /\ rt_max \in (-1)..MaxRetries
    /\ rt_i = 0
    /\ rt_pc = "loop"
    /\ rt_posts = 0
    /\ rt_statuses = <<>>
    /\ rt_sleeps = <<>>
    /\ rt_last = 0
    /\ rt_result = <<>>

\* one iteration of `for i in range(max_retries)` up to its sleep, raise or
\* return: the POST comes back with a response
PostResponds ==
    /\ rt_pc = "loop"
    /\ rt_i < rt_max
    /\ \E status \in Statuses :
          LET o == AttemptOutcome(status, rt_i, rt_max)
          IN  /\ rt_posts' = rt_posts + 1
              /\ rt_statuses' = Append(rt_statuses, status)
              /\ rt_last' = IF status \in RetryStatuses /\ rt_impl = "back"
                            THEN status ELSE rt_last
              /\ rt_pc' = CASE o = "sleep" -> "sleep"
                            [] o = "raise" -> "raised"
                            [] OTHER -> "returned"
              /\ rt_result' = CASE o = "sleep" -> rt_result
                                [] o = "raise" -> <<"HTTPError", status>>
                                [] OTHER -> <<"response", status>>
    /\ UNCHANGED <<rt_impl, rt_max, rt_i, rt_sleeps>>
    /\ UNCHANGED <<sanVars, srvVars, jobVars>>

\* requests.post itself raises (timeout, connection error): nothing catches it
PostFails ==
    /\ rt_pc = "loop"
    /\ rt_i < rt_max
    /\ rt_posts' = rt_posts + 1
    /\ rt_pc' = "raised"
    /\ rt_result' = <<"RequestException", 0>>
    /\ UNCHANGED <<rt_impl, rt_max, rt_i, rt_statuses, rt_sleeps, rt_last>>
    /\ UNCHANGED <<sanVars, srvVars, jobVars>>

\* `time.sleep(backoff ** (i + 1)); continue`
Sleep ==
    /\ rt_pc = "sleep"
    /\ rt_sleeps' = Append(rt_sleeps, Backoff(rt_i))
    /\ rt_i' = rt_i + 1
    /\ rt_pc' = "loop"
    /\ UNCHANGED <<rt_impl, rt_max, rt_posts, rt_statuses, rt_last, rt_result>>
    /\ UNCHANGED <<sanVars, srvVars, jobVars>>

\* the loop is exhausted: back raises last's HTTP error or RuntimeError
\* (lines 56-58); root evaluates `r.raise_for_status()` (lines 184-185), with
\* r unbound when the loop body never ran
AfterLoop ==
    /\ rt_pc = "loop"
    /\ rt_i >= rt_max
    /\ IF rt_impl = "back"
       THEN /\ rt_pc' = "raised"
            /\ rt_result' = IF rt_last # 0 /\ RaisesForStatus(rt_last)
                            THEN <<"HTTPError", rt_last>>
                            ELSE <<"RuntimeError", 0>>
       ELSE IF rt_posts = 0
       THEN /\ rt_pc' = "raised"
            /\ rt_result' = <<"UnboundLocalError", 0>>
       ELSE LET r == rt_statuses[Len(rt_statuses)]
            IN  IF RaisesForStatus(r)
                THEN rt_pc' = "raised" /\ rt_result' = <<"HTTPError", r>>
                ELSE rt_pc' = "returned" /\ rt_result' = <<"response", r>>
    /\ UNCHANGED <<rt_impl, rt_max, rt_i, rt_posts, rt_statuses, rt_sleeps, rt_last>>
    /\ UNCHANGED <<sanVars, srvVars, jobVars>>

RetryNext == PostResponds \/ PostFails \/ Sleep \/ AfterLoop

-----------------------------------------------------------------------------
(* back/asana_integration.py: projects, tasks and the TTL cache            *)

RSQUO == "<rsquo>"
LDQUO == "<ldquo>"
RDQUO == "<rdquo>"
EMDASH == "<emdash>"

MaxTime == 3

\* ASANA_CACHE_TTL (default 300 s), in the clock's unit of 150 s
ASANA_CACHE_TTL == 2

Gids == {<<"1">>, <<"2">>}

\* a project as list_all_projects returns it; gid <<>> stands for a missing gid
Project(gid, name) == [gid |-> gid, name |-> name]

P1 == Project(<<"1">>, <<"A">>)
P2 == Project(<<"2">>, <<"B">>)
PNoGid == Project(<<>>, <<"C">>)

\* a task as the tasks endpoint returns it
Task(name, notes, projects) == [name |-> name, notes |-> notes, projects |-> projects]

T1 == Task(<<"f","i","x",SP,"g","a">>, <<>>, << <<"A">> >>)
T2 == Task(<<"T","a","s","k">>, <<"s","e","e",SP,"h","t","t","p",":","/","/","u">>, <<>>)

\* what list_all_projects can do: raise (the workspace listing fails) or
\* return a list of projects
ProjectOutcomes ==
    { [ok |-> FALSE, list |-> <<>>] }
    \cup { [ok |-> TRUE, list |-> l] : l \in { <<>>, <<P1>>, <<P1, P2>>, <<PNoGid, P2>> } }

\* what GET /projects/<gid>/tasks can do: fail (raise_for_status) or return
\* a list of tasks
FetchOutcomes ==
    { [ok |-> FALSE, tasks |-> <<>>] }
    \cup { [ok |-> TRUE, tasks |-> l] : l \in { <<>>, <<T1>>, <<T1, T2>> } }

NoCache == [g \in Gids |-> <<>>]

\* _cache_get with the freshness test one tick too strict
cache_get_strict(c, t, key) ==
    IF c[key] = <<>> THEN <<>>
    ELSE IF (t - c[key][1].ts) >= c[key][1].ttl THEN <<>>
    ELSE <<c[key][1].val>>

\* _cache_get(key): <<>> for None, <<val>> for a value
cache_get(c, t, key) ==
    IF c[key] = <<>> THEN <<>>
    ELSE IF (t - c[key][1].ts) > c[key][1].ttl THEN <<>>
    ELSE <<c[key][1].val>>

\* _cache_put(key, val, ttl)
cache_put(c, t, key, val, ttl) ==
    [c EXCEPT ![key] = <<[val |-> val, ts |-> t, ttl |-> ttl]>>]

\* _list_tasks_for_project(project_gid) at time t, `fetch` being what the
\* tasks endpoint does if asked: the cache after it, the requests issued,
\* whether it raised, and the list returned
list_tasks_for_project(c, t, gid, fetch) ==
    With(cache_get(c, t, gid), LAMBDA cached :
        IF cached # <<>>
        THEN [cache |-> c, http |-> <<>>, raised |-> FALSE, tasks |-> cached[1]]
        ELSE IF ~fetch.ok
        THEN [cache |-> c, http |-> << <<"tasks", gid, FALSE>> >>, raised |-> TRUE,
              tasks |-> <<>>]
        ELSE [cache |-> cache_put(c, t, gid, fetch.tasks, ASANA_CACHE_TTL),
              http |-> << <<"tasks", gid, TRUE>> >>, raised |-> FALSE,
              tasks |-> fetch.tasks])

RECURSIVE PreloadTasks(_, _, _, _)
\* the loop of refresh_asana_cache over projs (lines 114-122); fetch maps a
\* gid to what its tasks endpoint does
PreloadTasks(c, t, projs, fetch) ==
    IF Len(projs) = 0 THEN [cache |-> c, http |-> <<>>]
    ELSE IF Head(projs).gid = <<>> THEN PreloadTasks(c, t, Tail(projs), fetch)
    ELSE With(list_tasks_for_project(c, t, Head(projs).gid, fetch[Head(projs).gid]),
              LAMBDA r :
         With(PreloadTasks(r.cache, t, Tail(projs), fetch), LAMBDA rest :
             [cache |-> rest.cache, http |-> r.http \o rest.http]))

\* refresh_asana_cache(force) once list_all_projects returned projs
refresh_asana_cache(c, t, projs, fetch, force) ==
    IF ~force THEN [cache |-> c, http |-> <<>>]
    ELSE PreloadTasks(c, t, projs, fetch)

\* str.strip(chars)
StripSet(t, chars) ==
    SubSeq(t, RunEndIn(t, 1, chars),
           CHOOSE n \in 0..Len(t) :
               /\ (n = 0 \/ t[n] \notin chars)
               /\ \A k \in (n + 1)..Len(t) : t[k] \in chars)

RECURSIVE Replace(_, _, _)
\* str.replace(old, new) for a non-empty old
Replace(t, old, new) ==
    With(FirstFrom(1, Len(t), LAMBDA k : StartsWithAt(t, k, old)), LAMBDA j :
        IF j > Len(t) THEN t
        ELSE SubSeq(t, 1, j - 1) \o new
             \o Replace(SubSeq(t, j + Len(old), Len(t)), old, new))

RECURSIVE CollapseSpace(_)
\* re.sub(r"\s+", " ", s)
CollapseSpace(t) ==
    With(RunEndExcl(t, 1, WhiteSpace), LAMBDA j :
        IF j > Len(t) THEN t
        ELSE SubSeq(t, 1, j - 1) \o <<SP>>
             \o CollapseSpace(SubSeq(t, RunEndIn(t, j, WhiteSpace), Len(t))))

StrAsana == <<"a","s","a","n","a">>
StrProject == <<"p","r","o","j","e","c","t">>
StrListProjects == <<"l","i","s","t",SP,"p","r","o","j","e","c","t","s">>
StrTask == <<"t","a","s","k">>
StrNone == <<"N","o","n","e">>
TaskPrepositions == << <<"a","b","o","u","t">>, <<"f","o","r">>, <<"w","i","t","h">> >>

MsgNoProjects ==
    <<"I",SP,"c","o","u","l","d","n",RSQUO,"t",SP,"f","i","n","d",SP,"a","n",
      "y",SP,"A","s","a","n","a",SP,"p","r","o","j","e","c","t","s",".">>
MsgNoTasks ==
    <<"I",SP,"c","o","u","l","d","n",RSQUO,"t",SP,"f","i","n","d",SP,"m","a",
      "t","c","h","i","n","g",SP,"A","s","a","n","a",SP,"t","a","s","k","s",
      ".">>
HdrProjects ==
    <<"*","*","A","s","a","n","a",SP,"p","r","o","j","e","c","t","s","*","*">>
HdrTasksMatching ==
    <<"A","s","a","n","a",SP,"t","a","s","k","s",SP,"m","a","t","c","h","i","n",
      "g",SP>>

\* where (.+) starts once `tasks?\s+(about|for|with)` has matched up to w:
\* after the longest run of blanks that leaves it a character other than a
\* newline; 0 when there is no such place
KeywordStart(t, w) ==
    With(RunEndIn(t, w, WhiteSpace), LAMBDA e :
        IF e = w THEN 0
        ELSE IF e <= Len(t) THEN e
        ELSE IF \E p \in (w + 1)..Len(t) : t[p] # NL
        THEN CHOOSE p \in (w + 1)..Len(t) :
                 t[p] # NL /\ \A r \in (p + 1)..Len(t) : t[r] = NL
        ELSE 0)

\* re.search(r"(tasks?\s+(about|for|with)\s+)(.+)", ql) tried at i:
\* <<group(3)>>, or <<>> when the pattern does not match there
TaskKeywordAt(t, i) ==
    IF ~StartsWithAt(t, i, StrTask) THEN <<>>
    ELSE With(IF StartsWithAt(t, i + 4, <<"s">>)
                 /\ i + 5 <= Len(t) /\ t[i + 5] \in WhiteSpace
              THEN i + 5 ELSE i + 4, LAMBDA a :
         With(RunEndIn(t, a, WhiteSpace), LAMBDA b :
             IF b = a \/ ~(\E k \in 1..3 : StartsWithAt(t, b, TaskPrepositions[k]))
             THEN <<>>
             ELSE With(KeywordStart(t, b + Len(TaskPrepositions[
                           CHOOSE k \in 1..3 : StartsWithAt(t, b, TaskPrepositions[k])])),
                       LAMBDA g :
                      IF g = 0 THEN <<>>
                      ELSE <<SubSeq(t, g, RunEndExcl(t, g, {NL}) - 1)>>)))

\* lines 179-183: the keyword asana_answer searches the tasks for
AsanaKeyword(ql) ==
    With(FirstFrom(1, Len(ql), LAMBDA i : TaskKeywordAt(ql, i) # <<>>), LAMBDA i :
    With(StripSet(IF i > Len(ql) THEN <<>> ELSE Strip(TaskKeywordAt(ql, i)[1]),
                  {"'", "\"", SP}), LAMBDA keyword :
        IF Len(keyword) > 0 THEN keyword ELSE Strip(Replace(ql, StrAsana, <<>>))))

\* _format_projects_bullets(projects)
format_projects_bullets(projects) ==
    IF Len(projects) = 0 THEN MsgNoProjects
    ELSE JoinWith(<<HdrProjects, <<>> >>
                  \o [i \in 1..(IF Len(projects) < 30 THEN Len(projects) ELSE 30) |->
                         BulletMark \o projects[i].name \o <<SP, EMDASH, SP>>
                         \o (IF projects[i].gid = <<>> THEN StrNone ELSE projects[i].gid)]
                  \o (IF Len(projects) > 30 THEN <<EllipsisLine>> ELSE <<>>),
                  <<NL>>)

\* lines 144-147: the snippet of a task's notes
Snippet(notes) ==
    With(CollapseSpace(Strip(notes)), LAMBDA n :
        IF Len(n) > 140 THEN SubSeq(n, 1, 137) \o <<ELLIPSIS>> ELSE n)

\* lines 141-153: the bullet of one task
TaskLine(t) ==
    With(Snippet(t.notes), LAMBDA snippet :
        BulletMark \o Strip(t.name)
        \o (IF Len(t.projects) > 0
            THEN <<SP, EMDASH, SP, "[">> \o JoinWith(t.projects, <<",", SP>>) \o <<"]">>
            ELSE <<>>)
        \o (IF Len(snippet) > 0 THEN <<NL, SP, SP>> \o snippet ELSE <<>>))

\* _format_tasks_bullets(tasks, header)
format_tasks_bullets(tasks, header) ==
    IF Len(tasks) = 0 THEN MsgNoTasks
    ELSE JoinWith(<< (<<"*","*">> \o header \o <<"*","*">>), <<>> >>
                  \o [i \in 1..(IF Len(tasks) < 10 THEN Len(tasks) ELSE 10) |->
                         TaskLine(tasks[i])]
                  \o (IF Len(tasks) > 10 THEN <<EllipsisLine>> ELSE <<>>),
                  <<NL>>)

SelectTasks(tasks, keyword) ==
    SelectSeq(tasks, LAMBDA t : /\ Len(keyword) > 0
                                /\ \/ Contains(Lower(t.name), keyword)
                                   \/ Contains(Lower(t.notes), keyword))

RECURSIVE CollectTasks(_, _, _, _, _)
\* the loop of asana_answer over projs (lines 188-200): the cache after it,
\* the requests issued and the tasks matched
CollectTasks(c, t, projs, fetch, keyword) ==
    IF Len(projs) = 0 THEN [cache |-> c, http |-> <<>>, matched |-> <<>>]
    ELSE IF Head(projs).gid = <<>> THEN CollectTasks(c, t, Tail(projs), fetch, keyword)
    ELSE With(list_tasks_for_project(c, t, Head(projs).gid, fetch[Head(projs).gid]),
              LAMBDA r :
         With(CollectTasks(r.cache, t, Tail(projs), fetch, keyword), LAMBDA rest :
             [cache |-> rest.cache, http |-> r.http \o rest.http,
              matched |-> (IF r.raised THEN <<>> ELSE SelectTasks(r.tasks, keyword))
                          \o rest.matched]))

\* asana_answer(question) with ASANA_PAT set; projs is what list_all_projects
\* does, fetch what the tasks endpoints do: the cache after it, the requests
\* issued, whether it raised, and the text returned
asana_answer(c, t, question, projs, fetch) ==
    With(Lower(question), LAMBDA ql :
    With(<< <<"projects", <<>>, projs.ok>> >>, LAMBDA listReq :
        IF ~projs.ok
        THEN [cache |-> c, http |-> listReq, raised |-> TRUE, text |-> <<>>]
        ELSE IF (Contains(ql, StrAsana) /\ Contains(ql, StrProject))
                \/ Contains(ql, StrListProjects)
        THEN [cache |-> c, http |-> listReq, raised |-> FALSE,
              text |-> format_projects_bullets(projs.list)]
        ELSE With(AsanaKeyword(ql), LAMBDA keyword :
             With(CollectTasks(c, t, projs.list, fetch, keyword), LAMBDA r :
                 [cache |-> r.cache, http |-> listReq \o r.http, raised |-> FALSE,
                  text |-> IF Len(r.matched) = 0
                           THEN MsgNoTasks \o <<NL, NL>>
                                \o format_projects_bullets(projs.list)
                           ELSE format_tasks_bullets(r.matched,
                                    HdrTasksMatching \o <<LDQUO>> \o keyword
                                    \o <<RDQUO>>)]))))

-----------------------------------------------------------------------------
(* The server between and during calls                                     *)

AllFlags == [app |-> "back", web |-> TRUE, ga |-> TRUE, asana |-> TRUE,
             show_sources |-> FALSE]

\* no call is being served
SrvQuiet ==
    /\ op_name = "none"
    /\ op_arg = <<>>
    /\ http = <<>>
    /\ calls = <<>>
    /\ tried = <<>>
    /\ resp = <<>>

SrvIdle ==
    /\ cfg = AllFlags
    /\ cache = NoCache
    /\ now = 0
    /\ SrvQuiet

\* asana_integration imported with ASANA_PAT set, nothing cached yet
AsanaInit ==
    /\ cfg = AllFlags
    /\ cache = NoCache
    /\ now = 0
    /\ SrvQuiet

Returned(v) == [kind |-> "return", value |-> v]
Raised(e) == [kind |-> "raise", value |-> e]
Json(status, body) == [kind |-> "http", status |-> status, body |-> body]

\* time passes between two calls
Tick ==
    /\ op_name = "none"
    /\ now < MaxTime
    /\ now' = now + 1
    /\ UNCHANGED <<cfg, cache, op_name, op_arg, http, calls, tried, resp>>
    /\ UNCHANGED <<sanVars, retryVars, jobVars>>

\* a call _list_tasks_for_project(gid)
ListTasks ==
    /\ op_name = "none"
    /\ \E gid \in Gids, fetch \in FetchOutcomes :
          LET r == list_tasks_for_project(cache, now, gid, fetch)
          IN  /\ op_name' = "list_tasks"
              /\ op_arg' = gid
              /\ cache' = r.cache
              /\ http' = r.http
              /\ resp' = IF r.raised THEN Raised("HTTPError") ELSE Returned(r.tasks)
    /\ UNCHANGED <<cfg, now, calls, tried>>
    /\ UNCHANGED <<sanVars, retryVars, jobVars>>

\* POST /asana/refresh (asana_refresh, back/server.py 440-445)
AsanaRefresh ==
    /\ op_name = "none"
    /\ op_name' = "refresh"
    /\ op_arg' = <<>>
    /\ IF ~cfg.asana
       THEN /\ resp' = Json(400, [error |-> "Asana not configured"])
            /\ UNCHANGED <<cache, http>>
       ELSE \E projs \in ProjectOutcomes, fetch \in [Gids -> FetchOutcomes] :
               IF ~projs.ok
               THEN /\ resp' = Raised("HTTPError")
                    /\ http' = << <<"projects", <<>>, FALSE>> >>
                    /\ UNCHANGED cache
               ELSE LET r == refresh_asana_cache(cache, now, projs.list, fetch, TRUE)
                    IN  /\ cache' = r.cache
                        /\ http' = << <<"projects", <<>>, TRUE>> >> \o r.http
                        /\ resp' = Json(200, [ok |-> TRUE, projects |-> projs.list])
    /\ UNCHANGED <<cfg, now, calls, tried>>
    /\ UNCHANGED <<sanVars, retryVars, jobVars>>

\* the call is over: its response has been delivered
SendResponse ==
    /\ op_name # "none"
    /\ op_name' = "none"
    /\ op_arg' = <<>>
    /\ http' = <<>>
    /\ calls' = <<>>
    /\ tried' = <<>>
    /\ resp' = <<>>
    /\ UNCHANGED <<cfg, cache, now>>
    /\ UNCHANGED <<sanVars, retryVars, jobVars>>

AsanaNext == Tick \/ ListTasks \/ AsanaRefresh \/ SendResponse

-----------------------------------------------------------------------------
(* The csv module: DictWriter and DictReader of the default dialect        *)

CR == "\r"
QUOTE == "\""
COMMA == ","

\* the characters that make csv.writer quote a field (QUOTE_MINIMAL)
CsvSpecial == {COMMA, QUOTE, CR, NL}

\* one field as csv.writer writes it
CsvField(f) ==
    IF \E i \in 1..Len(f) : f[i] \in CsvSpecial
    THEN <<QUOTE>> \o Replace(f, <<QUOTE>>, <<QUOTE, QUOTE>>) \o <<QUOTE>>
    ELSE f

\* writer.writerow(fields): the fields, comma-separated, and "\r\n"
CsvLine(fields) ==
    JoinWith([i \in 1..Len(fields) |-> CsvField(fields[i])], <<COMMA>>) \o <<CR, NL>>

\* the file after DictWriter(f, fieldnames).writeheader() and a writerow
\* for each row, a row being a function from its keys to text
WriteCsv(fieldnames, rows) ==
    CsvLine(fieldnames)
    \o ConcatAll([i \in 1..Len(rows) |->
                     CsvLine([j \in 1..Len(fieldnames) |-> rows[i][fieldnames[j]]])])

\* the closing quote of the quoted field that opens at i: the first quote
\* that is not the first of a doubled one (Len(t) + 1 when there is none)
QuoteEnd(t, i) ==
    FirstFrom(i + 1, Len(t),
              LAMBDA j : /\ t[j] = QUOTE
                         /\ Cardinality({ k \in (i + 1)..j : t[k] = QUOTE }) % 2 = 1
                         /\ (j = Len(t) \/ t[j + 1] # QUOTE))

\* the index of the comma or line end that ends the field starting at i
FieldEnd(t, i) ==
    IF i <= Len(t) /\ t[i] = QUOTE
    THEN (IF QuoteEnd(t, i) > Len(t) THEN Len(t) + 1
          ELSE RunEndExcl(t, QuoteEnd(t, i) + 1, {COMMA, CR, NL}))
    ELSE RunEndExcl(t, i, {COMMA, CR, NL})

\* the field starting at i as csv.reader reads it: the quoted part without
\* its quotes and with its doubled quotes single, then what follows it
FieldText(t, i) ==
    IF i <= Len(t) /\ t[i] = QUOTE
    THEN Replace(SubSeq(t, i + 1, QuoteEnd(t, i) - 1), <<QUOTE, QUOTE>>, <<QUOTE>>)
         \o SubSeq(t, QuoteEnd(t, i) + 1, FieldEnd(t, i) - 1)
    ELSE SubSeq(t, i, FieldEnd(t, i) - 1)

\* the index after the line end at e ("\r\n", "\r" or "\n")
AfterLineEnd(t, e) == IF t[e] = CR /\ e < Len(t) /\ t[e + 1] = NL THEN e + 2 ELSE e + 1

RECURSIVE CsvFieldsFrom(_, _, _, _)
RECURSIVE CsvRecordsFrom(_, _, _)
\* csv.reader at the start of a field: rec is the record being read, recs
\* the records read
CsvFieldsFrom(t, i, rec, recs) ==
    IF FieldEnd(t, i) > Len(t) THEN Append(recs, Append(rec, FieldText(t, i)))
    ELSE IF t[FieldEnd(t, i)] = COMMA
    THEN CsvFieldsFrom(t, FieldEnd(t, i) + 1, Append(rec, FieldText(t, i)), recs)
    ELSE CsvRecordsFrom(t, AfterLineEnd(t, FieldEnd(t, i)),
                        Append(recs, Append(rec, FieldText(t, i))))

\* csv.reader at the start of a record; an empty line is an empty record
CsvRecordsFrom(t, i, recs) ==
    IF i > Len(t) THEN recs
    ELSE IF t[i] \in {CR, NL} THEN CsvRecordsFrom(t, AfterLineEnd(t, i), Append(recs, <<>>))
    ELSE CsvFieldsFrom(t, i, <<>>, recs)

\* list(csv.reader(f)) without its empty records, which DictReader skips
CsvRecords(t) == SelectSeq(CsvRecordsFrom(t, 1, <<>>), LAMBDA r : Len(r) > 0)

\* the index of name among names, 0 when it is not one of them
IndexOf(names, name) ==
    IF \E j \in 1..Len(names) : names[j] = name
    THEN CHOOSE j \in 1..Len(names) : names[j] = name /\ \A k \in 1..(j - 1) : names[k] # name
    ELSE 0

\* a csv.DictReader row: the fields of rec under the fieldnames, a missing
\* field being None (written <<>>, as the empty field is)
DictRow(fieldnames, rec) ==
    [name \in { fieldnames[j] : j \in 1..Len(fieldnames) } |->
        With(CHOOSE j \in 1..Len(fieldnames) :
                 fieldnames[j] = name /\ \A k \in (j + 1)..Len(fieldnames) : fieldnames[k] # name,
             LAMBDA j : IF j <= Len(rec) THEN rec[j] ELSE <<>>)]

\* csv.DictReader(f): its fieldnames and its rows
ReadCsv(t) ==
    With(CsvRecords(t), LAMBDA recs :
        IF Len(recs) = 0 THEN [fieldnames |-> <<>>, rows |-> <<>>]
        ELSE [fieldnames |-> recs[1],
              rows |-> [i \in 1..(Len(recs) - 1) |-> DictRow(recs[1], recs[i + 1])]])

\* row.get(name) of a DictReader row, as `row.get(name) or ""`
GetCol(row, name) == IF name \in DOMAIN row THEN row[name] ELSE <<>>

\* `a or b` of two texts
Or(a, b) == IF Len(a) > 0 THEN a ELSE b

StrSource == <<"s","o","u","r","c","e">>
StrText == <<"t","e","x","t">>

-----------------------------------------------------------------------------
(* back/server.py and server.py: what /ask reads and whom it calls         *)

MaxWords == 2
MaxHits == 2

\* the words the model's questions are made of
Vocabulary ==
    << <<"N","e","w","s">>,
       <<"t","a","s","k">>,
       <<"g","a">>,
       <<"t","o","p",SP,"p","a","g","e","s">>,
       <<"h","a","s","h","t","a","g">> >>

\* the words numbered by S, in the order of their numbers
WordsOf(S) ==
    [i \in 1..Cardinality(S) |->
        Vocabulary[CHOOSE w \in S : Cardinality({v \in S : v <= w}) = i]]

\* the `question` values of the request bodies: at most MaxWords words
\* joined by blanks, a blank question, and one with blanks around a word
\* that has `ga` inside it
Questions ==
    { JoinWith(WordsOf(S), <<SP>>) :
          S \in { T \in SUBSET (1..Len(Vocabulary)) : Cardinality(T) <= MaxWords } }
    \cup { <<SP, SP>>, <<SP, "l", "e", "g", "a", "l", NL>> }

\* the `mode` values of the request bodies (<<>>: no mode)
Modes == { <<>>, <<"W","e","b">> }

StrWeb == <<"w","e","b">>
NewsyWords ==
    { <<"n","e","w","s">>, <<"b","r","e","a","k","i","n","g">>, <<"t","o","d","a","y">>,
      <<"l","a","t","e","s","t">>, <<"h","e","a","d","l","i","n","e">>,
      <<"u","p","d","a","t","e">> }
AsanaWords ==
    { StrAsana, StrTask, <<"t","i","c","k","e","t">>, StrProject,
      <<"t","a","s","k","s">> }
GaKeywords ==
    { <<"t","o","p",SP,"c","o","u","n","t","r","i","e","s">>,
      <<"t","o","p",SP,"p","a","g","e","s">>,
      <<"b","u","s","i","e","s","t">>,
      <<"t","o","t","a","l",SP,"a","c","t","i","v","e",SP,"u","s","e","r","s">>,
      <<"d","a","i","l","y",SP,"a","c","t","i","v","e",SP,"u","s","e","r","s">>,
      <<"d","a","i","l","y",SP,"u","s","e","r","s">> }
StrGa == <<"g","a">>
StrAnalytics == <<"a","n","a","l","y","t","i","c","s">>
StrGoogleAnalytics == <<"g","o","o","g","l","e",SP>> \o StrAnalytics
StrTopCountries == <<"t","o","p",SP,"c","o","u","n","t","r","i","e","s">>
StrTopPages == <<"t","o","p",SP,"p","a","g","e","s">>
StrDailyActiveUsers == <<"d","a","i","l","y",SP,"a","c","t","i","v","e",SP,"u","s","e","r","s">>
StrDailyUsers == <<"d","a","i","l","y",SP,"u","s","e","r","s">>
StrLastMonth == <<"l","a","s","t",SP,"m","o","n","t","h">>
StrHashtag == <<"h","a","s","h","t","a","g">>
StrHashtags == <<"h","a","s","h","t","a","g","s">>
StrTop == <<"t","o","p">>
StrTrending == <<"t","r","e","n","d","i","n","g">>
StrSuggest == <<"s","u","g","g","e","s","t">>
StrRelevant == <<"r","e","l","e","v","a","n","t">>
StrForBlank == <<"f","o","r",SP>>

\* \w of Python's re, within the model's alphabet
WordChars == {LowerSeq[i] : i \in 1..26} \cup {UpperSeq[i] : i \in 1..26}
             \cup {"0","1","2","3","4","5","6","7","8","9","_"}

\* re.search(r"\bWORD\b", t) is not None
ContainsWord(t, word) ==
    \E i \in 1..Len(t) :
        /\ StartsWithAt(t, i, word)
        /\ (i = 1 \/ t[i - 1] \notin WordChars)
        /\ (i + Len(word) > Len(t) \/ t[i + Len(word)] \notin WordChars)

AnyIn(t, words) == \E w \in words : Contains(t, w)

\* line 480
Newsy(q_lower) == AnyIn(q_lower, NewsyWords)

\* line 479
WebMode(mode) == Lower(mode) = StrWeb

\* line 481
WebTriggered(flags, q_lower, mode) == flags.web /\ (WebMode(mode) \/ Newsy(q_lower))

\* line 497
AsanaTriggered(flags, q_lower) == flags.asana /\ AnyIn(q_lower, AsanaWords)

\* line 510
HashtagTriggered(q_lower) ==
    Contains(q_lower, StrHashtag) \/ StartsWith(q_lower, <<"#">>)
    \/ Contains(q_lower, StrHashtags)

\* the GA CSV as /ask finds it: "absent", "empty" (no data rows) or "rows"
GaCsvStates == {"absent", "empty", "rows"}

\* lines 378-385 of back/server.py: which _ga_* function answers, and its
\* window; the text that function computes from the rows is written as the
\* pair of the two
GaAnswer(q_lower) ==
    LET days == IF Contains(q_lower, <<"3","0">>) \/ Contains(q_lower, StrLastMonth)
                THEN 30 ELSE 7
        fn == IF Contains(q_lower, StrTopCountries) THEN "_ga_top_countries"
              ELSE IF Contains(q_lower, StrTopPages) THEN "_ga_top_pages"
              ELSE IF Contains(q_lower, StrDailyActiveUsers) \/ Contains(q_lower, StrDailyUsers)
              THEN "_ga_daily_users"
              ELSE "_ga_summary"
    IN  <<fn, IF days = 30 THEN "30" ELSE "7">>

\* _maybe_answer_ga(q_lower) of back/server.py: <<>> for None, else <<answer>>;
\* the text a _ga_* function computes is named by the function and its window
\* `ga` and `analytics` looked for anywhere in the question
GaAskedSubstring(flags, q_lower) ==
    /\ flags.ga
    /\ \/ Contains(q_lower, StrGa)
       \/ Contains(q_lower, StrAnalytics)
       \/ AnyIn(q_lower, GaKeywords)

GaAsked(flags, q_lower) ==
    /\ flags.ga
    /\ LET ga_mention == \/ ContainsWord(q_lower, StrGa)
                          \/ Contains(q_lower, StrGoogleAnalytics)
                          \/ ContainsWord(q_lower, StrAnalytics)
       IN  ga_mention \/ AnyIn(q_lower, GaKeywords)

maybe_answer_ga(flags, q_lower, csv) ==
    IF ~GaAsked(flags, q_lower) THEN <<>>
    ELSE IF csv = "absent" THEN <<>>
    ELSE IF csv = "empty" THEN <<>>
    ELSE <<GaAnswer(q_lower)>>

\* _maybe_answer_ga(q_lower) of server.py (lines 204-242)
GaAskedRoot(q_lower) ==
    LET ga_mention == \/ Contains(q_lower, StrGa)
                      \/ Contains(q_lower, StrGoogleAnalytics)
                      \/ Contains(q_lower, StrAnalytics)
    IN  ga_mention \/ AnyIn(q_lower, {StrTopCountries, StrTopPages,
                                      StrDailyActiveUsers, StrDailyUsers})

maybe_answer_ga_root(q_lower, csv) ==
    IF csv = "absent" THEN <<>>
    ELSE IF ~GaAskedRoot(q_lower) THEN <<>>
    ELSE IF csv = "empty" THEN <<>>
    ELSE <<GaAnswer(q_lower)>>

\* lines 512-518 of back/server.py: which _hashtags_* function answers; the
\* text it computes from the CSV is named by the function
HashtagAnswer(q_lower) ==
    IF Contains(q_lower, StrTop) THEN <<"_hashtags_top">>
    ELSE IF Contains(q_lower, StrTrending) THEN <<"_hashtags_trending">>
    ELSE IF Contains(q_lower, StrSuggest) \/ Contains(q_lower, StrRelevant)
            \/ Contains(q_lower, StrForBlank)
    THEN <<"_hashtags_suggest">>
    ELSE <<"_hashtags_any">>

StrFreq == <<"f","r","e","q">>
StrCount == <<"c","o","u","n","t">>
StrFrequency == <<SP,"(","f","r","e","q","u","e","n","c","y",":",SP>>

\* counts.most_common() of extract_instagram_hashtags.py: each hashtag with
\* its count, as str(n) writes it, and its example source
HashtagCounts ==
    { <<>>,
      << [ht |-> <<"#","a">>, n |-> <<"3">>, src |-> <<"s">>],
         [ht |-> <<"#","b">>, n |-> <<"1">>, src |-> <<>>] >> }

\* lines 31-41 of extract_instagram_hashtags.py: the file main writes
extract_hashtags_csv(counts) ==
    WriteCsv(<<StrText, StrSource>>,
             [i \in 1..Len(counts) |->
                 (StrText :> counts[i].ht \o StrFrequency \o counts[i].n \o <<")">>)
                 @@ (StrSource :> counts[i].src)])

\* a table with the columns _hashtag_fallback expects
HashtagTable ==
    WriteCsv(<<StrHashtag, StrFreq>>,
             << (StrHashtag :> <<"#","a">>) @@ (StrFreq :> <<"3">>),
                (StrHashtag :> <<SP>>) @@ (StrFreq :> <<"1">>),
                (StrHashtag :> <<"b">>) @@ (StrFreq :> <<>>) >>)

\* instagram_hashtags.csv as server.py finds it: <<>> for no file, else
\* <<its text>>: the table, or what the extractor wrote
HashtagCsvStates ==
    { <<>>, <<HashtagTable>> }
    \cup { <<extract_hashtags_csv(c)>> : c \in HashtagCounts }

\* lines 53-57 of server.py: the bullet of one row, <<>> when it has no tag
HashtagBullet(row) ==
    IF Len(Strip(GetCol(row, StrHashtag))) = 0 THEN <<>>
    ELSE With(Strip(Or(GetCol(row, StrFreq), GetCol(row, StrCount))), LAMBDA freq :
            IF Len(freq) > 0
            THEN << <<"-", SP>> \o Strip(GetCol(row, StrHashtag)) \o StrFrequency
                    \o freq \o <<")">> >>
            ELSE << <<"-", SP>> \o Strip(GetCol(row, StrHashtag)) >>)

\* _hashtag_fallback() of server.py (lines 42-58)
hashtag_fallback(csv) ==
    IF csv = <<>> THEN <<>>
    ELSE With(ReadCsv(csv[1]).rows, LAMBDA rows :
            JoinWith(ConcatAll([i \in 1..Len(rows) |-> HashtagBullet(rows[i])]), <<NL>>))

\* a hit of the vector search: payload <<>> (none, or an empty dict), else
\* <<[text, source]>> with text <<>> when the payload has no `text`
Hit(payload) == [payload |-> payload]

HitKinds ==
    { Hit(<<>>),
      Hit(<< [text |-> <<>>, source |-> "s1"] >>),
      Hit(<< [text |-> << <<"a","b">> >>, source |-> "s1"] >>),
      Hit(<< [text |-> << <<"c",NL,"d">> >>, source |-> "s2"] >>),
      Hit(<< [text |-> << <<SP>> >>, source |-> "s2"] >>) }

HitLists == UNION { [1..k -> HitKinds] : k \in 0..MaxHits }

\* "\n\n---\n\n"
ContextSeparator == <<NL, NL, "-", "-", "-", NL, NL>>

\* MAX_CONTEXT_CHARS, scaled to the model's short texts (default 24000, and
\* 12000 in server.py)
MAX_CONTEXT_CHARS == 10

\* `[h.get("payload", {}).get("text", "") for h in hits if h.get("payload")]`
Chunks(hits) ==
    LET withPayload == SelectSeq(hits, LAMBDA h : h.payload # <<>>)
    IN  [i \in 1..Len(withPayload) |->
            IF withPayload[i].payload[1].text = <<>> THEN <<>>
            ELSE withPayload[i].payload[1].text[1]]

\* the join without its `if c` filter: empty chunks are joined too
BuildContextUnfiltered(hits) ==
    LET joined == JoinWith(Chunks(hits), ContextSeparator)
    IN  SubSeq(joined, 1, IF Len(joined) < MAX_CONTEXT_CHARS THEN Len(joined)
                          ELSE MAX_CONTEXT_CHARS)

\* `"\n\n---\n\n".join([c for c in chunks if c])[:MAX_CONTEXT_CHARS]`
BuildContext(hits) ==
    LET joined == JoinWith(SelectSeq(Chunks(hits), LAMBDA c : Len(c) > 0), ContextSeparator)
    IN  SubSeq(joined, 1, IF Len(joined) < MAX_CONTEXT_CHARS THEN Len(joined)
                          ELSE MAX_CONTEXT_CHARS)

RECURSIVE Unique(_)
\* list(dict.fromkeys(xs))
Unique(xs) ==
    IF Len(xs) = 0 THEN <<>>
    ELSE <<Head(xs)>> \o Unique(SelectSeq(Tail(xs), LAMBDA x : x # Head(xs)))

\* lines 281-285 of server.py
HitSources(hits) ==
    LET withPayload == SelectSeq(hits, LAMBDA h : h.payload # <<>>)
    IN  Unique([i \in 1..Len(withPayload) |-> withPayload[i].payload[1].source])

\* _CLOSERS, each sentence shortened to its first word and its mark
Closers ==
    << <<"W","o","u","l","d","?">>, <<"W","a","n","t","?">>, <<"S","h","o","u","l","d","?">>,
       <<"W","a","n","t",SP,"t","h","i","s","?">>, <<"S","h","a","l","l","?">> >>

\* chat_answer once the completion came back with `content`, c being the
\* closer random.choice drew (lines 122-127 of back, 233-239 of root)
chat_answer(content, c) ==
    LET msg == Strip(content)
    IN  IF Contains(msg, Closers[c]) THEN msg
        ELSE Strip(msg \o <<NL, NL>> \o Closers[c])

\* _SECRET_PATTERNS (lines 96-100): the least number of characters after
\* `sk-`, after `Bearer\s+`, and in a run of alphanumerics (20, 20 and 32),
\* scaled to the model's short messages
SK_MIN == 3
BEARER_MIN == 3
RUN_MIN == 9

StrSk == <<"s","k","-">>
StrBearer == <<"B","e","a","r","e","r">>
StrRedacted == <<"[","R","E","D","A","C","T","E","D","]">>

\* [A-Za-z0-9], [A-Za-z0-9\-_] and [A-Za-z0-9\-_\.]
AlnumChars == WordChars \ {"_"}
KeyChars == WordChars \cup {"-"}
BearerChars == WordChars \cup {"-", "."}

\* where the match of a pattern that starts at i ends (the index after it),
\* 0 when the pattern does not match at i
SecretMatchEnd(pat, t, i) ==
    CASE pat = "sk" ->
            IF StartsWithAt(t, i, StrSk) /\ RunEndIn(t, i + 3, KeyChars) - (i + 3) >= SK_MIN
            THEN RunEndIn(t, i + 3, KeyChars) ELSE 0
      [] pat = "bearer" ->
            IF /\ StartsWithAt(t, i, StrBearer)
               /\ RunEndIn(t, i + 6, WhiteSpace) > i + 6
               /\ RunEndIn(t, RunEndIn(t, i + 6, WhiteSpace), BearerChars)
                      - RunEndIn(t, i + 6, WhiteSpace) >= BEARER_MIN
            THEN RunEndIn(t, RunEndIn(t, i + 6, WhiteSpace), BearerChars) ELSE 0
      [] pat = "run" ->
            IF RunEndIn(t, i, AlnumChars) - i >= RUN_MIN
            THEN RunEndIn(t, i, AlnumChars) ELSE 0

RECURSIVE Redact(_, _)
\* pat.sub("[REDACTED]", t)
Redact(t, pat) ==
    With(FirstFrom(1, Len(t), LAMBDA k : SecretMatchEnd(pat, t, k) > 0), LAMBDA j :
        IF j > Len(t) THEN t
        ELSE SubSeq(t, 1, j - 1) \o StrRedacted
             \o Redact(SubSeq(t, SecretMatchEnd(pat, t, j), Len(t)), pat))

\* only the sk- keys redacted
SanitizeKeysOnly(msg) == IF Len(msg) = 0 THEN msg ELSE Redact(msg, "sk")

\* _sanitize_error_message(msg) (lines 102-108)
sanitize_error_message(msg) ==
    IF Len(msg) = 0 THEN msg
    ELSE Redact(Redact(Redact(msg, "sk"), "bearer"), "run")

\* the secrets an exception message can embed: two sk- keys, a Bearer
\* token and a run of alphanumerics
Secrets ==
    { <<"s","k","-","a","b","c">>,
      <<"s","k","-","d","_","E","-","9">>,
      StrBearer \o <<SP,"x","y",".","z">>,
      <<"A","1","b","2","C","3","d","4","e">> }

MsgBefore == <<"k","e","y",SP>>
MsgAfter == <<SP,"b","a","d">>

\* str(e) of the exceptions the services raise: a text around a secret, or
\* around a word that is none
ExcMessages == { MsgBefore \o x \o MsgAfter : x \in Secrets \cup { <<"x">> } }

\* type(e).__name__ of the exceptions of the OpenAI and Qdrant calls, and of
\* the Asana call with its message
StrRuntimeError == <<"R","u","n","t","i","m","e","E","r","r","o","r">>
StrHTTPError == <<"H","T","T","P","E","r","r","o","r">>
MsgAsanaError == <<"4","0","1",SP,"C","l","i","e","n","t",SP,"E","r","r","o","r">>

\* f"{type(e).__name__}: {msg}"
TypedError(type, msg) == type \o <<":", SP>> \o msg

\* a service raising each of the messages
Raises == { [kind |-> "raise", msg |-> m] : m \in ExcMessages }

\* a service raising a message with an sk- key or the message with no secret
RaisesKey ==
    { r \in Raises : r.msg \in { MsgBefore \o x \o MsgAfter :
                                  x \in { <<"s","k","-","a","b","c">>, <<"x">> } } }

StrMissingQuestion ==
    <<"M","i","s","s","i","n","g",SP,"q","u","e","s","t","i","o","n">>

MsgDontKnow ==
    <<"I",SP,"d","o","n",RSQUO,"t",SP,"k","n","o","w",SP,"f","r","o","m",SP,"t",
      "h","e",SP,"c","u","r","r","e","n","t",SP,"d","a","t","a","s","e","t",
      ".">>

-----------------------------------------------------------------------------
(* POST /ask                                                               *)

StrBadRequest == <<"B","a","d","R","e","q","u","e","s","t">>
StrAttributeError == <<"A","t","t","r","i","b","u","t","e","E","r","r","o","r">>

\* what lines 470-471 raise on a body that is no JSON object with a text for
\* a question: get_json raises BadRequest on text that is not JSON, a JSON
\* list or text has no `get`, a number for a question has no `strip`
\* (the messages shortened)
BodyFault(fault) ==
    CASE fault = "not_json" ->
            [type |-> StrBadRequest,
             msg |-> <<"4","0","0",SP,"B","a","d",SP,"R","e","q","u","e","s","t">>]
      [] fault = "not_object" ->
            [type |-> StrAttributeError, msg |-> <<"n","o",SP,"g","e","t">>]
      [] fault = "question_not_text" ->
            [type |-> StrAttributeError, msg |-> <<"n","o",SP,"s","t","r","i","p">>]

\* the bodies lines 470-471 raise on
FaultyBodies ==
    { [question |-> <<>>, mode |-> <<>>, fault |-> f] :
          f \in {"not_json", "not_object", "question_not_text"} }

\* request bodies: `question` <<>> when the body has none, else <<text>>
Requests ==
    { [question |-> <<>>, mode |-> <<>>] }
    \cup { [question |-> <<q>>, mode |-> m] : q \in Questions, m \in Modes }
    \cup FaultyBodies

\* JSON bodies of /ask: error <<>> when the body has no `error`; answer and
\* sources <<>> when the body has none of them, else <<value>>
AnswerBody(text, sources) == [error |-> <<>>, answer |-> <<text>>, sources |-> <<sources>>]
\* the error alone
ErrorBodyBare(e) == [error |-> e, answer |-> <<>>, sources |-> <<>>]

ErrorBody(e) == [error |-> e, answer |-> << <<>> >>, sources |-> << <<>> >>]
MissingQuestion == [error |-> StrMissingQuestion, answer |-> <<>>, sources |-> <<>>]

\* what the services /ask depends on do during one request; "unasked" marks a
\* service the request did not reach
Unasked == [kind |-> "unasked"]
NoEnv ==
    [web |-> Unasked, asana |-> Unasked, gacsv |-> Unasked, hashtagcsv |-> Unasked,
     embed |-> Unasked, search |-> Unasked, chat |-> Unasked]

WebTexts ==
    { <<"#", "#", SP, "T", NL, "-", SP, "x">>,
      <<"h","t","t","p",":","/","/","u">> }

ChatContents ==
    { <<"-", SP, "x", SP, "[", "t", "]", "(", "h","t","t","p",":","/","/","u", ")", NL>>
      \o Closers[1] \o <<SP>> }

\* what GET /projects/<gid>/tasks can do while /ask is served
AskFetchOutcomes == { [ok |-> FALSE, tasks |-> <<>>], [ok |-> TRUE, tasks |-> <<T1, T2>>] }

\* the outcomes of the service named `what`
OutcomesOf(what) ==
    CASE what = "web" ->
            Raises \cup { [kind |-> "ok", text |-> t] : t \in WebTexts }
      [] what = "asana" ->
            { [kind |-> "ok", projs |-> p, fetch |-> f] :
                  p \in ProjectOutcomes, f \in [Gids -> AskFetchOutcomes] }
      [] what = "gacsv" ->
            { [kind |-> "ok", csv |-> c] : c \in GaCsvStates }
      [] what = "hashtagcsv" ->
            { [kind |-> "ok", csv |-> c] : c \in HashtagCsvStates }
      [] what = "embed" ->
            Raises \cup { [kind |-> "ok"] }
      [] what = "search" ->
            RaisesKey \cup { [kind |-> "ok", hits |-> h] : h \in HitLists }
      [] what = "chat" ->
            RaisesKey
            \cup { [kind |-> "ok", content |-> t, closer |-> c] :
                       t \in ChatContents, c \in 1..Len(Closers) }

\* what chat_answer returns for each completion and closer drawn
ChatAnswers ==
    [o \in { c \in OutcomesOf("chat") : c.kind = "ok" } |->
        chat_answer(o.content, o.closer)]

\* line 530 of back/server.py: the clean_text of each of them
CleanChatAnswers ==
    [o \in DOMAIN ChatAnswers |->
        sanitize_answer_format(Strip(ChatAnswers[o]), DEFAULT_MAX_BULLETS)]

\* the run of a request so far: the routes tried and how each ended, the
\* calls made to embed_text, search, chat_answer and the fallbacks, the Asana
\* requests issued, the cache, what the services consulted did, and the
\* response (<<>>: none yet)
Started(c) ==
    [tried |-> <<>>, calls |-> <<>>, http |-> <<>>, cache |-> c, env |-> NoEnv,
     resp |-> <<>>]

Consult(st, what, o) == [st EXCEPT !.env[what] = o]
Call(st, fn, arg) == [st EXCEPT !.calls = Append(@, [fn |-> fn, arg |-> arg])]
Ended(st, route, outcome) ==
    [st EXCEPT !.tried = Append(@, [route |-> route, outcome |-> outcome])]
Respond(st, route, outcome, r) == [Ended(st, route, outcome) EXCEPT !.resp = <<r>>]

\* the test `if context:` in place of `if context.strip():`
HasContextUnstripped(context) == Len(context) > 0

\* line 531 of back/server.py, line 288 of server.py: context.strip()
HasContext(context) == Len(Strip(context)) > 0

\* lines 482-494 of back/server.py, web being what web_answer_updated does
WebBlock(rq, web, st) ==
    LET st1 == Call(Consult(st, "web", web), "web_answer_updated", rq.q)
    IN  IF web.kind = "raise"
        THEN Respond(st1, "web", "raised", Json(502, ErrorBody(sanitize_error_message(web.msg))))
        ELSE LET clean_text == sanitize_answer_format(Strip(web.text), DEFAULT_MAX_BULLETS)
             IN  IF Len(clean_text) > 0
                 THEN Respond(st1, "web", "answered", Json(200, AnswerBody(clean_text, <<>>)))
                 ELSE Ended(st1, "web", "declined")

\* lines 498-501 of back/server.py, asana being what the Asana API does
AsanaBlock(t, rq, asana, st) ==
    LET r == asana_answer(st.cache, t, rq.q, asana.projs, asana.fetch)
        st1 == [Call(Consult(st, "asana", asana), "asana_answer", rq.q) EXCEPT
                    !.cache = r.cache, !.http = @ \o r.http]
    IN  IF r.raised
        THEN Respond(st1, "asana", "raised", Json(500, ErrorBody(TypedError(StrHTTPError,
                                                     sanitize_error_message(MsgAsanaError)))))
        ELSE Respond(st1, "asana", "answered",
                     Json(200, AnswerBody(
                         sanitize_answer_format(r.text, DEFAULT_MAX_BULLETS), <<>>)))

\* lines 504-507 of back/server.py and 263-265 of server.py; gacsv is the GA
\* CSV the call finds, unasked when it does not look
GaBlock(app, flags, rq, gacsv, st) ==
    LET csv == IF gacsv.kind = "unasked" THEN "absent" ELSE gacsv.csv
        ga_try == IF app = "back" THEN maybe_answer_ga(flags, rq.q_lower, csv)
                  ELSE maybe_answer_ga_root(rq.q_lower, csv)
        st1 == Call(Consult(st, "gacsv", gacsv), "_maybe_answer_ga", rq.q_lower)
    IN  IF ga_try # <<>>
        THEN Respond(st1, "ga", "answered", Json(200, AnswerBody(ga_try[1], <<>>)))
        ELSE Ended(st1, "ga", "declined")

\* lines 511-518 of back/server.py
HashtagBlock(rq, st) ==
    Respond(Call(st, HashtagAnswer(rq.q_lower)[1], rq.q), "hashtags", "answered",
            Json(200, AnswerBody(HashtagAnswer(rq.q_lower), <<>>)))

\* lines 258-260 of server.py, hashtagcsv being the CSV _hashtag_fallback finds
HashtagBlockRoot(hashtagcsv, st) ==
    LET fallback == hashtag_fallback(hashtagcsv.csv)
        st1 == Call(Consult(st, "hashtagcsv", hashtagcsv), "_hashtag_fallback", <<>>)
    IN  IF Len(fallback) > 0
        THEN Respond(st1, "hashtags", "answered", Json(200, AnswerBody(fallback, <<>>)))
        ELSE Ended(st1, "hashtags", "declined")

\* lines 521-540 of back/server.py, embed, search and chat being what
\* embed_text, search and chat_answer do (chat unasked when it is not called)
RagBlock(rq, embed, search, chat, st) ==
    LET st1 == Call(Consult(st, "embed", embed), "embed_text", rq.q)
    IN  IF embed.kind = "raise"
        THEN Respond(st1, "rag", "raised",
                     Json(500, ErrorBody(TypedError(StrRuntimeError,
                                                    sanitize_error_message(embed.msg)))))
        ELSE LET st2 == Call(Consult(st1, "search", search), "search", <<>>)
                 hits == IF search.kind = "raise" THEN <<>> ELSE search.hits
                 context == BuildContext(hits)
             IN  IF ~HasContext(context)
                 THEN Respond(st2, "rag", "answered",
                              Json(200, AnswerBody(MsgDontKnow, <<>>)))
                 ELSE LET st3 == Call(Consult(st2, "chat", chat), "chat_answer", context)
                      IN  IF chat.kind = "raise"
                          THEN Respond(st3, "rag", "raised",
                                       Json(502, ErrorBody(sanitize_error_message(chat.msg))))
                          ELSE Respond(st3, "rag", "answered",
                                       Json(200, AnswerBody(CleanChatAnswers[chat], <<>>)))

\* lines 268-304 of server.py
RagBlockRoot(flags, rq, embed, search, chat, st) ==
    LET st1 == Call(Consult(st, "embed", embed), "embed_text", rq.q)
    IN  IF embed.kind = "raise"
        THEN Respond(st1, "rag", "raised",
                     Json(500, ErrorBody(TypedError(StrRuntimeError, embed.msg))))
        ELSE LET st2 == Call(Consult(st1, "search", search), "search", <<>>)
             IN  IF search.kind = "raise"
                 THEN Respond(st2, "rag", "raised",
                              Json(500, ErrorBody(TypedError(StrRuntimeError, search.msg))))
                 ELSE LET context == BuildContext(search.hits)
                          sources == IF flags.show_sources
                                     THEN HitSources(search.hits) ELSE <<>>
                      IN  IF ~HasContext(context)
                          THEN Respond(st2, "rag", "answered",
                                       Json(200, AnswerBody(MsgDontKnow, sources)))
                          ELSE LET st3 == Call(Consult(st2, "chat", chat),
                                               "chat_answer", context)
                               IN  IF chat.kind = "raise"
                                   THEN Respond(st3, "rag", "raised",
                                                Json(500, ErrorBody(TypedError(StrRuntimeError,
                                                                               chat.msg))))
                                   ELSE Respond(st3, "rag", "answered",
                                            Json(200, AnswerBody(Strip(ChatAnswers[chat]),
                                                                 sources)))

\* the RAG block under everything the services it reaches can do
RagRuns(flags, rq, st) ==
    LET block(e, s, c) == IF flags.app = "back" THEN RagBlock(rq, e, s, c, st)
                          ELSE RagBlockRoot(flags, rq, e, s, c, st)
        reaches_chat(s) ==
            IF s.kind = "raise" THEN FALSE ELSE HasContext(BuildContext(s.hits))
    IN  { block(e, Unasked, Unasked) : e \in Raises }
        \cup UNION { IF reaches_chat(s)
                     THEN { block([kind |-> "ok"], s, c) : c \in OutcomesOf("chat") }
                     ELSE { block([kind |-> "ok"], s, Unasked) } :
                     s \in OutcomesOf("search") }

\* the GA block moved back in front of the web block
BackRoutesGaFirst == <<"ga", "web", "asana", "hashtags", "rag">>

\* the order of the route blocks in ask: back/server.py, server.py
BackRoutes == <<"web", "asana", "ga", "hashtags", "rag">>
RootRoutes == <<"hashtags", "ga", "rag">>

\* one route block of ask, guard included, under everything the services it
\* reaches can do: the runs after it
RouteRuns(route, flags, t, rq, st) ==
    CASE route = "web" ->
            IF WebTriggered(flags, rq.q_lower, rq.mode)
            THEN { WebBlock(rq, o, st) : o \in OutcomesOf("web") }
            ELSE {st}
      [] route = "asana" ->
            IF AsanaTriggered(flags, rq.q_lower)
            THEN { AsanaBlock(t, rq, o, st) : o \in OutcomesOf("asana") }
            ELSE {st}
      [] route = "ga" ->
            IF flags.app = "back"
            THEN { GaBlock("back", flags, rq, o, st) :
                       o \in IF GaAsked(flags, rq.q_lower)
                             THEN OutcomesOf("gacsv") ELSE {Unasked} }
            ELSE { GaBlock("root", flags, rq, o, st) : o \in OutcomesOf("gacsv") }
      [] route = "hashtags" ->
            IF ~HashtagTriggered(rq.q_lower) THEN {st}
            ELSE IF flags.app = "back" THEN { HashtagBlock(rq, st) }
            ELSE { HashtagBlockRoot(o, st) : o \in OutcomesOf("hashtagcsv") }
      [] route = "rag" -> RagRuns(flags, rq, st)

RECURSIVE RunRoutesThrough(_, _, _, _, _)
\* the route blocks without their return statements: the first response is
\* kept, the later blocks still run
RunRoutesThrough(routes, flags, t, rq, st) ==
    IF Len(routes) = 0 THEN {st}
    ELSE UNION { RunRoutesThrough(Tail(routes), flags, t, rq,
                                  IF st.resp # <<>> THEN [nx EXCEPT !.resp = st.resp]
                                  ELSE nx) :
                     nx \in RouteRuns(Head(routes), flags, t, rq, st) }

RECURSIVE RunRoutes(_, _, _, _, _)
\* the route blocks in turn, each returning from ask when it responds
RunRoutes(routes, flags, t, rq, st) ==
    IF Len(routes) = 0 \/ st.resp # <<>> THEN {st}
    ELSE UNION { RunRoutes(Tail(routes), flags, t, rq, nx) :
                     nx \in RouteRuns(Head(routes), flags, t, rq, st) }

\* the question read without stripping it
AskedUnstripped(body) ==
    LET q == IF body.question = <<>> THEN <<>> ELSE body.question[1]
    IN  [q |-> q, q_lower |-> Lower(q), mode |-> body.mode]

\* the question as ask reads it from the body (lines 471-479)
Asked(body) ==
    LET q == IF body.question = <<>> THEN <<>> ELSE Strip(body.question[1])
    IN  [q |-> q, q_lower |-> Lower(q), mode |-> body.mode]

\* ask() of the application the server runs: the runs it can take
ask(flags, c, t, body) ==
    LET rq == Asked(body)
    IN  IF body \in FaultyBodies
        THEN { [Started(c) EXCEPT !.resp =
                   <<Json(500, ErrorBody(TypedError(BodyFault(body.fault).type,
                              IF flags.app = "back"
                              THEN sanitize_error_message(BodyFault(body.fault).msg)
                              ELSE BodyFault(body.fault).msg)))>>] }
        ELSE IF Len(rq.q) = 0
        THEN { [Started(c) EXCEPT !.resp = <<Json(400, MissingQuestion)>>] }
        ELSE RunRoutes(IF flags.app = "back" THEN BackRoutes ELSE RootRoutes,
                       flags, t, rq, Started(c))

\* the configurations a server can run with: back/server.py with its three
\* feature switches, server.py with SHOW_SOURCES
Configs ==
    { [app |-> "back", web |-> w, ga |-> g, asana |-> a, show_sources |-> FALSE] :
          w \in BOOLEAN, g \in BOOLEAN, a \in BOOLEAN }
    \cup { [app |-> "root", web |-> FALSE, ga |-> TRUE, asana |-> FALSE,
            show_sources |-> s] : s \in BOOLEAN }

\* the server started, nothing cached yet
AskInit ==
    /\ cfg \in Configs
    /\ cache = NoCache
    /\ now = 0
    /\ SrvQuiet

Serve(name) ==
    /\ op_name = "none"
    /\ \E body \in Requests :
          \E st \in ask(cfg, cache, now, body) :
             /\ op_name' = name
             /\ op_arg' = [body |-> body, env |-> st.env]
             /\ cache' = st.cache
             /\ http' = st.http
             /\ calls' = st.calls
             /\ tried' = st.tried
             /\ resp' = st.resp[1]
    /\ UNCHANGED <<cfg, now>>
    /\ UNCHANGED <<sanVars, retryVars, jobVars>>

\* POST /ask served by back/server.py
AskBack == cfg.app = "back" /\ Serve("ask_back")

\* POST /ask served by server.py
AskRoot == cfg.app = "root" /\ Serve("ask_root")

AskNext == AskBack \/ AskRoot \/ SendResponse

-----------------------------------------------------------------------------
(* back/ingest_to_qdrant.py: _chunk                                        *)

MaxChunkText == 4
MaxChunkSize == 4

RECURSIVE SplitWs(_)
\* str.split(): the maximal runs of non-whitespace characters
SplitWs(t) ==
    IF Len(LStrip(t)) = 0 THEN <<>>
    ELSE With(LStrip(t), LAMBDA s :
            With(RunEndExcl(s, 1, WhiteSpace), LAMBDA j :
                <<SubSeq(s, 1, j - 1)>> \o SplitWs(SubSeq(s, j, Len(s)))))

\* `" ".join(text.split())` (line 42)
NormalizeWs(text) == JoinWith(SplitWs(text), <<SP>>)

\* text[i:j] of Python for 0 <= i <= j
Slice(text, i, j) == SubSeq(text, i + 1, IF j < Len(text) THEN j ELSE Len(text))

\* t without its first n characters (t[n:])
DropChars(t, n) == SubSeq(t, n + 1, Len(t))

\* the step `i += size`, which leaves no overlap
ChunkStepNoOverlap(size, overlap) == size

\* `i += size - overlap` (line 46)
ChunkStep(size, overlap) == size - overlap

RECURSIVE ChunkFrom(_, _, _, _)
\* the loop of _chunk from index i on (lines 43-46): what it yields
ChunkFrom(text, i, size, overlap) ==
    IF i >= Len(text) THEN <<>>
    ELSE <<Slice(text, i, i + size)>>
         \o ChunkFrom(text, i + ChunkStep(size, overlap), size, overlap)

\* list(_chunk(text, size, overlap))
chunk(text, size, overlap) == ChunkFrom(NormalizeWs(text), 0, size, overlap)

\* the letters of the texts, all different
ChunkLetters == <<"a", "b", "c", "d", "e", "f">>

\* what stands between two letters, before the first and after the last
ChunkGaps == { <<>>, <<SP>>, <<NL, SP>> }

RECURSIVE Interleave(_, _)
\* gaps[1] letter 1 gaps[2] letter 2 ... gaps[n + 1]
Interleave(n, gaps) ==
    IF n = 0 THEN gaps[1]
    ELSE Interleave(n - 1, gaps) \o <<ChunkLetters[n]>> \o gaps[n + 1]

\* the `text` arguments: up to MaxChunkText letters with blanks around them
ChunkTexts ==
    UNION { { Interleave(n, g) : g \in [1..(n + 1) -> ChunkGaps] } : n \in 0..MaxChunkText }

\* the calls the model makes: size > overlap >= 0
ChunkCalls ==
    { <<t, s, o>> : t \in ChunkTexts, s \in 1..MaxChunkSize, o \in 0..(MaxChunkSize - 1) }

ChunkIdle ==
    /\ ch_text = <<>>
    /\ ch_size = 1
    /\ ch_overlap = 0
    /\ ch_out = <<>>
    /\ ch_pc = "idle"


ChunkInit ==
    /\ \E c \in ChunkCalls :
          /\ c[2] > c[3]
          /\ ch_text = c[1] /\ ch_size = c[2] /\ ch_overlap = c[3]
    /\ ch_out = <<>>
    /\ ch_pc = "call"

\* the generator _chunk(ch_text, ch_size, ch_overlap) run to exhaustion
ChunkAll ==
    /\ ch_pc = "call"
    /\ ch_out' = chunk(ch_text, ch_size, ch_overlap)
    /\ ch_pc' = "done"
    /\ UNCHANGED <<ch_text, ch_size, ch_overlap>>
    /\ UNCHANGED <<sanVars, retryVars, srvVars, ingVars, fetchVars, topVars>>

ChunkNext == ChunkAll

-----------------------------------------------------------------------------
(* back/ingest_to_qdrant.py, ingest_hashtags.py and ingest.py              *)

MaxRows == 3

\* BATCH of back/ingest_to_qdrant.py (64) and of ingest_hashtags.py (100),
\* and the size and overlap main chunks with (1100 and 150), scaled to the
\* model's short texts
BATCH == 2
HASHTAGS_BATCH == 2
INGEST_SIZE == 3
INGEST_OVERLAP == 1

\* row.get(key) of a csv.DictReader row: <<>> for None and for ""
Get(row, key) == IF key \in DOMAIN row THEN row[key] ELSE <<>>

\* the rows a corpus file can hold, as csv.DictReader gives them, each with
\* the platform FILES names for its file
CorpusRowKinds ==
    { [platform |-> "sheet",
       cols |-> [text |-> <<"a","b","c","d">>, title |-> <<"t">>, source |-> <<"s">>]],
      [platform |-> "gdoc",
       cols |-> [content |-> <<SP,"a","b",SP>>, url |-> <<"u">>]],
      [platform |-> "notion",
       cols |-> [text |-> <<SP>>, source |-> <<"s">>]] }

\* the corpus a script finds: <<>> when its file is absent, else <<rows>>
Corpora ==
    { <<>> } \cup { <<rows>> : rows \in UNION { [1..n -> CorpusRowKinds] : n \in 0..MaxRows } }

IngestScripts == { "ingest_to_qdrant", "ingest_hashtags", "ingest" }

\* what embed_text returns for a text: a vector the text determines
Embedding(text) == <<"embedding", text>>

\* one step of _rows_from_csv (lines 28-39): <<>> when the row is skipped,
\* else <<the dict it yields>>
rows_from_csv(row) ==
    With(Strip(Or(Get(row.cols, "text"), Get(row.cols, "content"))), LAMBDA text :
        IF Len(text) = 0 THEN <<>>
        ELSE << [text |-> text,
                 title |-> Strip(Or(Get(row.cols, "title"),
                                    Or(Get(row.cols, "doc_title"), Get(row.cols, "sheet")))),
                 source |-> Strip(Or(Get(row.cols, "source"),
                                     Or(Get(row.cols, "url"), Get(row.cols, "link")))),
                 platform |-> row.platform] >>)

\* lines 64-68: the point of a piece, id standing for the fresh uuid4
IngestPoint(id, meta, piece) ==
    [id |-> id, vector |-> Embedding(piece),
     payload |-> [title |-> meta.title, source |-> meta.source,
                  platform |-> meta.platform, text |-> piece]]

\* the test `len(pending) > BATCH`, which lets a batch grow one point longer
FlushDueLate(pending) == Len(pending) > BATCH

\* `len(pending) >= BATCH` (line 70)
FlushDue(pending) == Len(pending) >= BATCH

IngIdle ==
    /\ ing_script = "none"
    /\ ing_corpus = <<>>
    /\ ing_row = 0
    /\ ing_meta = <<>>
    /\ ing_pieces = <<>>
    /\ ing_embeds = <<>>
    /\ ing_pending = <<>>
    /\ ing_total = 0
    /\ ing_upserts = <<>>
    /\ ing_pc = "idle"

\* a script started on a corpus
IngInit ==
    /\ ing_script \in IngestScripts
    /\ ing_corpus \in Corpora
    /\ ing_row = 0
    /\ ing_meta = <<>>
    /\ ing_pieces = <<>>
    /\ ing_embeds = <<>>
    /\ ing_pending = <<>>
    /\ ing_total = 0
    /\ ing_upserts = <<>>
    /\ ing_pc = "run"

\* the rows main of back/ingest_to_qdrant.py iterates over
IngRows == IF ing_corpus = <<>> THEN <<>> ELSE ing_corpus[1]

IngOthers == <<sanVars, retryVars, srvVars, chunkVars, fetchVars, topVars>>

\* main, lines 55-62: the next row of the corpus is read; a row with text
\* gives base_meta and the pieces to embed
IngNextRow ==
    /\ ing_script = "ingest_to_qdrant" /\ ing_pc = "run"
    /\ ing_pieces = <<>> /\ ing_row < Len(IngRows)
    /\ ing_row' = ing_row + 1
    /\ With(rows_from_csv(IngRows[ing_row + 1]), LAMBDA r :
          IF r = <<>> THEN UNCHANGED <<ing_meta, ing_pieces>>
          ELSE /\ ing_meta' = <<r[1]>>
               /\ ing_pieces' = chunk(r[1].text, INGEST_SIZE, INGEST_OVERLAP))
    /\ UNCHANGED <<ing_script, ing_corpus, ing_embeds, ing_pending, ing_total,
                   ing_upserts, ing_pc>>
    /\ UNCHANGED IngOthers

\* main, lines 63-74: one piece is embedded and appended to pending, and
\* pending is upserted when it is full; embed_text and upsert_points can raise
IngPiece ==
    /\ ing_script = "ingest_to_qdrant" /\ ing_pc = "run"
    /\ ing_pieces # <<>>
    /\ \E embed_ok \in BOOLEAN, upsert_ok \in BOOLEAN :
          /\ ing_embeds' = Append(ing_embeds, [text |-> Head(ing_pieces), ok |-> embed_ok])
          /\ IF ~embed_ok
             THEN /\ ing_pc' = "raised"
                  /\ UNCHANGED <<ing_pieces, ing_pending, ing_total, ing_upserts>>
             ELSE With(Append(ing_pending,
                              IngestPoint(Len(ing_embeds) + 1, ing_meta[1], Head(ing_pieces))),
                       LAMBDA pending :
                  IF ~FlushDue(pending)
                  THEN /\ upsert_ok
                       /\ ing_pending' = pending
                       /\ ing_pieces' = Tail(ing_pieces)
                       /\ UNCHANGED <<ing_total, ing_upserts, ing_pc>>
                  ELSE /\ ing_upserts' = Append(ing_upserts, [points |-> pending, ok |-> upsert_ok])
                       /\ IF upsert_ok
                          THEN /\ ing_total' = ing_total + Len(pending)
                               /\ ing_pending' = <<>>
                               /\ ing_pieces' = Tail(ing_pieces)
                               /\ UNCHANGED ing_pc
                          ELSE /\ ing_pending' = pending
                               /\ ing_pc' = "raised"
                               /\ UNCHANGED <<ing_total, ing_pieces>>)
    /\ UNCHANGED <<ing_script, ing_corpus, ing_row, ing_meta>>
    /\ UNCHANGED IngOthers

\* main, lines 76-81: the rows are exhausted, what is pending is upserted
IngFinish ==
    /\ ing_script = "ingest_to_qdrant" /\ ing_pc = "run"
    /\ ing_pieces = <<>> /\ ing_row = Len(IngRows)
    /\ \E upsert_ok \in BOOLEAN :
          IF ing_pending = <<>>
          THEN /\ upsert_ok
               /\ ing_pc' = "returned"
               /\ UNCHANGED <<ing_pending, ing_total, ing_upserts>>
          ELSE /\ ing_upserts' = Append(ing_upserts, [points |-> ing_pending, ok |-> upsert_ok])
               /\ ing_pc' = IF upsert_ok THEN "returned" ELSE "raised"
               /\ ing_total' = IF upsert_ok THEN ing_total + Len(ing_pending) ELSE ing_total
               /\ UNCHANGED ing_pending
    /\ UNCHANGED <<ing_script, ing_corpus, ing_row, ing_meta, ing_pieces, ing_embeds>>
    /\ UNCHANGED IngOthers

\* points[i:i+n] for i = 0, n, 2n, ...
RECURSIVE Batches(_, _)
Batches(points, n) ==
    IF Len(points) = 0 THEN <<>>
    ELSE <<Slice(points, 0, n)>> \o Batches(DropChars(points, n), n)

\* the first k of the embed_text calls of texts, the k-th raising when
\* fail = k
EmbedCalls(texts, fail) ==
    [i \in 1..(IF fail = 0 THEN Len(texts) ELSE fail) |-> [text |-> texts[i], ok |-> i # fail]]

\* main of ingest_hashtags.py (lines 8-34), run as a whole: the rows with
\* text are embedded, then upserted in slices of BATCH; an embed_text that
\* raises ends the run before anything is upserted
IngestHashtags ==
    /\ ing_script = "ingest_hashtags" /\ ing_pc = "run"
    /\ IF ing_corpus = <<>>
       THEN /\ ing_pc' = "returned"
            /\ UNCHANGED <<ing_embeds, ing_upserts, ing_total>>
       ELSE With(SelectSeq(ing_corpus[1], LAMBDA row : Len(Strip(Get(row.cols, "text"))) > 0),
                 LAMBDA rows :
              \E fail \in 0..Len(rows) :
                 /\ ing_embeds' = EmbedCalls([i \in 1..Len(rows) |->
                                                 Strip(Get(rows[i].cols, "text"))], fail)
                 /\ IF fail # 0
                    THEN /\ ing_pc' = "raised"
                         /\ UNCHANGED <<ing_upserts, ing_total>>
                    ELSE /\ ing_pc' = "returned"
                         /\ ing_total' = Len(rows)
                         /\ ing_upserts' =
                               With(Batches([i \in 1..Len(rows) |->
                                       [id |-> i,
                                        vector |-> Embedding(Strip(Get(rows[i].cols, "text"))),
                                        payload |-> [text |-> Strip(Get(rows[i].cols, "text")),
                                                     source |-> Strip(Get(rows[i].cols, "source"))]]],
                                       HASHTAGS_BATCH),
                                    LAMBDA bs : [i \in 1..Len(bs) |-> [points |-> bs[i], ok |-> TRUE]]))
    /\ UNCHANGED <<ing_script, ing_corpus, ing_row, ing_meta, ing_pieces, ing_pending>>
    /\ UNCHANGED IngOthers

\* ingest_sheets_to_qdrant of ingest.py (lines 14-30), run as a whole: every
\* row is embedded, then all points are upserted at once; a missing file, a
\* row without a `text` or `source` column, or an embed_text that raises ends
\* the run before the upsert
IngestSheets ==
    /\ ing_script = "ingest" /\ ing_pc = "run"
    /\ IF ing_corpus = <<>>
       THEN /\ ing_pc' = "raised"
            /\ UNCHANGED <<ing_embeds, ing_upserts, ing_total>>
       ELSE With(ing_corpus[1], LAMBDA rows :
              With(FirstFrom(1, Len(rows),
                             LAMBDA i : ~({"text", "source"} \subseteq DOMAIN rows[i].cols)),
                   LAMBDA bad :
                 \E fail \in 0..(bad - 1) :
                    /\ ing_embeds' =
                          EmbedCalls([i \in 1..(bad - 1) |-> rows[i].cols.text], fail)
                    /\ IF fail # 0 \/ bad <= Len(rows)
                       THEN /\ ing_pc' = "raised"
                            /\ UNCHANGED <<ing_upserts, ing_total>>
                       ELSE /\ ing_pc' = "returned"
                            /\ ing_total' = Len(rows)
                            /\ ing_upserts' =
                                  << [points |-> [i \in 1..Len(rows) |->
                                         [id |-> i,
                                          vector |-> Embedding(rows[i].cols.text),
                                          payload |-> [text |-> rows[i].cols.text,
                                                       source |-> rows[i].cols.source]]],
                                      ok |-> TRUE] >>))
    /\ UNCHANGED <<ing_script, ing_corpus, ing_row, ing_meta, ing_pieces, ing_pending>>
    /\ UNCHANGED IngOthers

IngNext == IngNextRow \/ IngPiece \/ IngFinish \/ IngestHashtags \/ IngestSheets

-----------------------------------------------------------------------------
(* back/fetch_drive_export.py, back/fetch_notion_export.py and             *)
(* fetch_ga_daily.py, and _load_ga_rows of the servers                     *)

MaxDocs == 3
MaxReport == 2

StrDate == <<"d","a","t","e">>
StrCountry == <<"c","o","u","n","t","r","y">>
StrPage == <<"p","a","g","e">>
StrPagePath == <<"p","a","g","e","P","a","t","h">>
StrActiveUsers == <<"a","c","t","i","v","e","U","s","e","r","s">>
StrEventCount == <<"e","v","e","n","t","C","o","u","n","t">>
StrUsers == <<"u","s","e","r","s">>
StrEvents == <<"E","v","e","n","t","s">>

\* fieldnames of the document fetchers (lines 165 and 118) and of
\* fetch_ga_daily.py (line 75)
DocFieldnames == <<StrSource, StrText>>
GaFieldnames == <<StrDate, StrCountry, StrPage, StrActiveUsers, StrEventCount>>

RECURSIVE CollapseBlanks(_)
\* re.sub(r"[ \t]{2,}", " ", txt)
CollapseBlanks(t) ==
    With(RunEndExcl(t, 1, {SP, "\t"}), LAMBDA j :
        IF j > Len(t) THEN t
        ELSE With(RunEndIn(t, j, {SP, "\t"}), LAMBDA e :
                 SubSeq(t, 1, j - 1)
                 \o (IF e - j >= 2 THEN <<SP>> ELSE SubSeq(t, j, e - 1))
                 \o CollapseBlanks(SubSeq(t, e, Len(t)))))

\* _clean_text of fetch_drive_export.py (lines 43-47)
clean_text(txt) ==
    Strip(CollapseBlanks(CollapseNewlines(
        Replace(Replace(txt, <<CR, NL>>, <<NL>>), <<CR>>, <<NL>>))))

\* what a file of the export folder gives its parser: the raw text the
\* parsing library extracts, or an exception
DocKinds ==
    { [path |-> <<"a">>, raises |-> FALSE, raw |-> <<"x", SP, SP, "y">>],
      [path |-> <<"b">>, raises |-> FALSE, raw |-> <<>>],
      [path |-> <<"c">>, raises |-> FALSE, raw |-> <<NL>>],
      [path |-> <<"d">>, raises |-> TRUE, raw |-> <<>>] }

\* the files a document fetcher finds, in the order it visits them
DocLists == UNION { [1..n -> DocKinds] : n \in 0..MaxDocs }

\* the values of DRIVE_DOC_CHAR_LIMIT (0: no limit)
DocCharLimits == {0, 1}

\* the rows of a GA report: dimension values and metric values
ReportRowKinds ==
    { [dvals |-> << <<"2","0","2","4","0","1","0","2">>, <<"I","N">>, <<"/","a">> >>,
       mvals |-> << <<"1","2">>, <<"7">> >>],
      [dvals |-> << <<"2","0","2","4","0","2","3","0">>, <<>>, <<SP>> >>,
       mvals |-> << <<"0">>, <<>> >>],
      [dvals |-> << <<"2","0","2","4","0","2","2","9">>, <<"K",COMMA,SP,"S">>,
                    <<"/",QUOTE,"q">> >>,
       mvals |-> << <<"3">>, <<"1","0","0">> >>],
      [dvals |-> <<>>, mvals |-> <<>>] }

Reports == UNION { [1..n -> ReportRowKinds] : n \in 0..MaxReport }

\* the test `if text:`, which keeps a blank text
NotionKeepsNonEmpty(text) == Len(text) > 0

\* `if text.strip():` (line 111 of fetch_notion_export.py)
NotionKeeps(text) == Len(Strip(text)) > 0

\* lines 149-157 of fetch_drive_export.py: the row of one file, <<>> when
\* it gives none; parse_file returns the cleaned text of the file
DriveRow(doc, limit) ==
    IF doc.raises THEN <<>>
    ELSE With(clean_text(doc.raw), LAMBDA txt :
            IF Len(txt) = 0 THEN <<>>
            ELSE << (StrSource :> doc.path)
                    @@ (StrText :> IF limit > 0 THEN Slice(txt, 0, limit) ELSE txt) >>)

\* lines 109-114 of fetch_notion_export.py: the row of one file
NotionRow(doc) ==
    IF doc.raises THEN <<>>
    ELSE IF NotionKeeps(doc.raw)
    THEN << (StrSource :> doc.path) @@ (StrText :> doc.raw) >>
    ELSE <<>>

\* dvals[k] / mvals[k] when the list is that long (lines 57-63)
ValueAt(vals, k, default) ==
    IF Len(vals) >= k THEN Strip(Or(vals[k], default)) ELSE default

\* lines 57-71 of fetch_ga_daily.py: the row of one report row
GaRow(r) ==
    (StrDate :> ValueAt(r.dvals, 1, <<>>))
    @@ (StrCountry :> ValueAt(r.dvals, 2, <<>>))
    @@ (StrPage :> ValueAt(r.dvals, 3, <<>>))
    @@ (StrActiveUsers :> ValueAt(r.mvals, 1, <<"0">>))
    @@ (StrEventCount :> ValueAt(r.mvals, 2, <<"0">>))

DigitSeq == <<"0","1","2","3","4","5","6","7","8","9">>
IsDigits(s) == \A i \in 1..Len(s) : \E d \in 1..10 : DigitSeq[d] = s[i]
DigitOf(c) == (CHOOSE d \in 1..10 : DigitSeq[d] = c) - 1

RECURSIVE NatOf(_)
\* int(s) for a string of digits
NatOf(s) == IF Len(s) = 0 THEN 0 ELSE NatOf(SubSeq(s, 1, Len(s) - 1)) * 10 + DigitOf(s[Len(s)])

\* _parse_int(val, 0): int(float(s)) of the stripped text without its
\* commas, for digits with an optional fraction; 0 for anything else
parse_int(val) ==
    With(Replace(Strip(val), <<COMMA>>, <<>>), LAMBDA s :
        With(RunEndExcl(s, 1, {"."}), LAMBDA dot :
            IF Len(s) > 0 /\ dot > 1 /\ IsDigits(SubSeq(s, 1, dot - 1))
               /\ IsDigits(SubSeq(s, dot + 1, Len(s)))
            THEN NatOf(SubSeq(s, 1, dot - 1))
            ELSE 0))

DaysIn(y, m) ==
    IF m = 2 THEN (IF y % 4 = 0 /\ (y % 100 # 0 \/ y % 400 = 0) THEN 29 ELSE 28)
    ELSE IF m \in {4, 6, 9, 11} THEN 30 ELSE 31

\* date(y, m, d): <<>> when there is no such date
DateOf(y, m, d) ==
    IF y >= 1 /\ m \in 1..12 /\ d >= 1 /\ d <= DaysIn(y, m) THEN <<y, m, d>> ELSE <<>>

\* lines 272-283 of back/server.py: YYYYMMDD by strptime, YYYY-MM-DD by
\* fromisoformat, None (<<>>) for anything else
parse_date(ds) ==
    IF Len(ds) = 8 /\ IsDigits(ds)
    THEN DateOf(NatOf(SubSeq(ds, 1, 4)), NatOf(SubSeq(ds, 5, 6)), NatOf(SubSeq(ds, 7, 8)))
    ELSE IF Len(ds) = 10 /\ ds[5] = "-" /\ ds[8] = "-" /\ IsDigits(SubSeq(ds, 1, 4))
            /\ IsDigits(SubSeq(ds, 6, 7)) /\ IsDigits(SubSeq(ds, 9, 10))
    THEN DateOf(NatOf(SubSeq(ds, 1, 4)), NatOf(SubSeq(ds, 6, 7)), NatOf(SubSeq(ds, 9, 10)))
    ELSE <<>>

\* _find_col(row, names): the first of names that is a column of the row,
\* compared case-insensitively; <<>> when none is
find_col(row, names) ==
    With(FirstFrom(1, Len(names),
                   LAMBDA j : \E k \in DOMAIN row : Lower(k) = Lower(names[j])),
         LAMBDA j :
            IF j > Len(names) THEN <<>>
            ELSE CHOOSE k \in DOMAIN row : Lower(k) = Lower(names[j]))

DateColumns == <<StrDate, <<"D","a","t","e">> >>
CountryColumns == <<StrCountry, <<"C","o","u","n","t","r","y">> >>

\* the page columns without `page`
PageColumnsNoPage == <<StrPagePath, <<"p","a","g","e","_","t","i","t","l","e">> >>

\* lines 267: the names the page column may have (the two long names left out)
PageColumns == <<StrPagePath, StrPage, <<"p","a","g","e","_","t","i","t","l","e">> >>
UsersColumns == <<StrActiveUsers, StrUsers, <<"U","s","e","r","s">> >>
EventsColumns == <<StrEventCount, StrEvents>>

\* the value of the column find_col found, <<>> when it found none
ColValue(raw, col) == IF col = <<>> THEN <<>> ELSE Strip(GetCol(raw, col))

\* lines 265-290 of back/server.py (104-132 of server.py): the dict of one
\* row; date, country and page <<>> for None
load_ga_row(raw) ==
    [date |-> parse_date(ColValue(raw, find_col(raw, DateColumns))),
     country |-> ColValue(raw, find_col(raw, CountryColumns)),
     page |-> ColValue(raw, find_col(raw, PageColumns)),
     users |-> IF find_col(raw, UsersColumns) = <<>> THEN 0
               ELSE parse_int(GetCol(raw, find_col(raw, UsersColumns))),
     events |-> IF find_col(raw, EventsColumns) = <<>> THEN 0
                ELSE parse_int(GetCol(raw, find_col(raw, EventsColumns)))]

\* _load_ga_rows() on the file it finds: <<>> (absent) or <<its text>>
load_ga_rows(file) ==
    IF file = <<>> THEN <<>>
    ELSE With(ReadCsv(file[1]), LAMBDA csv :
            IF Len(csv.fieldnames) = 0 THEN <<>>
            ELSE [i \in 1..Len(csv.rows) |-> load_ga_row(csv.rows[i])])

FetchIdle ==
    /\ f_script = "none"
    /\ f_in = <<>>
    /\ f_limit = 0
    /\ f_header = <<>>
    /\ f_rows = <<>>
    /\ f_file = <<>>
    /\ f_loaded = <<>>
    /\ f_pc = "idle"

\* a fetcher started: on the files of an export folder (<<>> when the
\* folder is missing, which fetch_drive_export.py rules out at import), or on
\* the report the GA API returns
FetchInit ==
    /\ \/ f_script = "fetch_drive_export" /\ f_in \in { <<d>> : d \in DocLists }
          /\ f_limit \in DocCharLimits
       \/ f_script = "fetch_notion_export" /\ f_in \in { <<>> } \cup { <<d>> : d \in DocLists }
          /\ f_limit = 0
       \/ f_script = "fetch_ga_daily" /\ f_in \in { <<r>> : r \in Reports }
          /\ f_limit = 0
    /\ f_header = <<>>
    /\ f_rows = <<>>
    /\ f_file = <<>>
    /\ f_loaded = <<>>
    /\ f_pc = "run"

FetchOthers == <<sanVars, retryVars, srvVars, chunkVars, ingVars, topVars>>

\* the file is written: header, then the rows
Written(fieldnames, rows) ==
    /\ f_header' = fieldnames
    /\ f_rows' = rows
    /\ f_file' = <<WriteCsv(fieldnames, rows)>>
    /\ f_pc' = "written"

\* main of fetch_drive_export.py (lines 126-172)
FetchDrive ==
    /\ f_script = "fetch_drive_export" /\ f_pc = "run"
    /\ Written(DocFieldnames,
               ConcatAll([i \in 1..Len(f_in[1]) |-> DriveRow(f_in[1][i], f_limit)]))
    /\ UNCHANGED <<f_script, f_in, f_limit, f_loaded>>
    /\ UNCHANGED FetchOthers

\* main of fetch_notion_export.py (lines 79-123); sys.exit(1) when the
\* export folder is missing
FetchNotion ==
    /\ f_script = "fetch_notion_export" /\ f_pc = "run"
    /\ IF f_in = <<>>
       THEN /\ f_pc' = "exited"
            /\ UNCHANGED <<f_header, f_rows, f_file>>
       ELSE Written(DocFieldnames, ConcatAll([i \in 1..Len(f_in[1]) |-> NotionRow(f_in[1][i])]))
    /\ UNCHANGED <<f_script, f_in, f_limit, f_loaded>>
    /\ UNCHANGED FetchOthers

\* run of fetch_ga_daily.py (lines 29-80)
FetchGa ==
    /\ f_script = "fetch_ga_daily" /\ f_pc = "run"
    /\ Written(GaFieldnames, [i \in 1..Len(f_in[1]) |-> GaRow(f_in[1][i])])
    /\ UNCHANGED <<f_script, f_in, f_limit, f_loaded>>
    /\ UNCHANGED FetchOthers

\* the server's _load_ga_rows reads the file fetch_ga_daily.py wrote
LoadGa ==
    /\ f_script = "fetch_ga_daily" /\ f_pc = "written"
    /\ f_loaded' = load_ga_rows(f_file)
    /\ f_pc' = "loaded"
    /\ UNCHANGED <<f_script, f_in, f_limit, f_header, f_rows, f_file>>
    /\ UNCHANGED FetchOthers

FetchNext == FetchDrive \/ FetchNotion \/ FetchGa \/ LoadGa

-----------------------------------------------------------------------------
(* back/server.py: _load_hashtags_rows and _hashtags_top                   *)

MaxTagRows == 3
DEFAULT_TOP == 10

StrTag == <<"t","a","g">>
StrFrequencyCol == <<"f","r","e","q","u","e","n","c","y">>
MsgNoHashtagsCsv ==
    <<"I",SP,"d","o","n",RSQUO,"t",SP,"h","a","v","e",SP,"a","n",SP,
      "I","n","s","t","a","g","r","a","m",SP,"h","a","s","h","t","a","g","s",SP,
      "C","S","V",SP,"o","n",SP,"t","h","i","s",SP,"s","e","r","v","e","r",SP,
      "y","e","t",".">>

RECURSIVE NatStr(_)
\* str(n) of an int
NatStr(n) == IF n < 10 THEN <<DigitSeq[n + 1]>> ELSE NatStr(n \div 10) \o <<DigitSeq[(n % 10) + 1]>>
IntStr(n) == IF n < 0 THEN <<"-">> \o NatStr(0 - n) ELSE NatStr(n)

\* int(s or "0") of line 177, s being the text without commas, stripped: 0
\* when int raises
hashtag_freq(freq) ==
    With(Strip(Replace(freq, <<COMMA>>, <<>>)), LAMBDA t :
        IF Len(t) = 0 THEN 0
        ELSE IF IsDigits(t) THEN NatOf(t)
        ELSE IF t[1] \in {"-", "+"} /\ Len(t) > 1 /\ IsDigits(Tail(t))
        THEN (IF t[1] = "-" THEN 0 - NatOf(Tail(t)) ELSE NatOf(Tail(t)))
        ELSE 0)

\* lines 170-180: the row loaded from one row of the file, <<>> when the
\* row has no tag
HashtagRow(raw) ==
    With(Strip(Or(GetCol(raw, StrHashtag), GetCol(raw, StrTag))), LAMBDA tag :
        IF Len(tag) = 0 THEN <<>>
        ELSE << [hashtag |-> IF tag[1] = "#" THEN Tail(tag) ELSE tag,
                 freq |-> hashtag_freq(Or(Or(GetCol(raw, StrFreq), GetCol(raw, StrCount)),
                                          GetCol(raw, StrFrequencyCol)))] >>)

\* _load_hashtags_rows() (lines 163-181)
load_hashtags_rows(csv) ==
    IF csv = <<>> THEN <<>>
    ELSE With(ReadCsv(csv[1]).rows, LAMBDA raws :
            ConcatAll([i \in 1..Len(raws) |-> HashtagRow(raws[i])]))

\* where sorted(..., reverse=True) puts a row among rows already sorted:
\* after every row whose freq is not below its own
InsertByFreq(sorted, r) ==
    With(FirstFrom(1, Len(sorted), LAMBDA k : sorted[k].freq < r.freq), LAMBDA j :
        SubSeq(sorted, 1, j - 1) \o <<r>> \o SubSeq(sorted, j, Len(sorted)))

RECURSIVE SortByFreq(_)
\* sorted(rows, key=lambda r: r["freq"], reverse=True)
SortByFreq(rows) ==
    IF Len(rows) = 0 THEN <<>>
    ELSE InsertByFreq(SortByFreq(SubSeq(rows, 1, Len(rows) - 1)), rows[Len(rows)])

\* the slice taking every row
TopCutNone(n, len) == len

\* [: max(1, n)] of a list of len rows: how many it keeps
TopCut(n, len) == IF (IF n > 1 THEN n ELSE 1) < len THEN (IF n > 1 THEN n ELSE 1) ELSE len

\* f"• #{r['hashtag']} — {r['freq']}"
HashtagLine(r) == <<BULLET, SP, "#">> \o r.hashtag \o <<SP, EMDASH, SP>> \o IntStr(r.freq)

\* f"**Top {len(top)} hashtags**"
TopHeader(k) ==
    <<"*","*","T","o","p",SP>> \o IntStr(k)
    \o <<SP,"h","a","s","h","t","a","g","s","*","*">>

\* _hashtags_top(n) once rows are loaded (lines 185-191)
hashtags_top(rows, n) ==
    IF Len(rows) = 0 THEN MsgNoHashtagsCsv
    ELSE With(SubSeq(SortByFreq(rows), 1, TopCut(n, Len(rows))), LAMBDA top :
            JoinWith(<<TopHeader(Len(top))>> \o [i \in 1..Len(top) |-> HashtagLine(top[i])],
                     <<NL>>))

\* the rows a hashtags table can hold: a tag and a count as written, with
\* the number the count stands for
TagRowKinds ==
    { [tag |-> <<"#","a">>, freq |-> <<"3">>, val |-> 3],
      [tag |-> <<"b">>, freq |-> <<"1",COMMA,"2","0","0">>, val |-> 1200],
      [tag |-> <<SP>>, freq |-> <<"9">>, val |-> 9],
      [tag |-> <<"c">>, freq |-> <<"x">>, val |-> 0],
      [tag |-> <<SP,"#","d">>, freq |-> <<"3",SP>>, val |-> 3] }

\* the column names of the table: those _load_hashtags_rows looks for, and
\* those extract_instagram_hashtags.py writes
TagColumns ==
    { <<StrHashtag, StrFreq>>, <<StrTag, StrFrequencyCol>>, <<StrText, StrSource>> }

TagTables ==
    { [cols |-> c, rows |-> r] :
          c \in TagColumns, r \in UNION { [1..k -> TagRowKinds] : k \in 0..MaxTagRows } }

\* the file a table is written to
TagFile(t) ==
    WriteCsv(t.cols, [i \in 1..Len(t.rows) |->
                         (t.cols[1] :> t.rows[i].tag) @@ (t.cols[2] :> t.rows[i].freq)])

\* the values of n: the default of ask, and values around the row counts
TopNs == {-1, 0, 1, 2, DEFAULT_TOP}

TopIdle ==
    /\ ht_in = <<>> /\ ht_csv = <<>> /\ ht_n = 0
    /\ ht_rows = <<>> /\ ht_out = <<>> /\ ht_pc = "idle"

\* _hashtags_top(n) called with the file absent or written from a table
TopInit ==
    /\ ht_in \in { <<>> } \cup { <<t>> : t \in TagTables }
    /\ ht_csv = IF ht_in = <<>> THEN <<>> ELSE <<TagFile(ht_in[1])>>
    /\ ht_n \in TopNs
    /\ ht_rows = <<>> /\ ht_out = <<>> /\ ht_pc = "call"

\* _hashtags_top(n) (lines 183-191)
HashtagsTop ==
    /\ ht_pc = "call"
    /\ ht_rows' = load_hashtags_rows(ht_csv)
    /\ ht_out' = hashtags_top(load_hashtags_rows(ht_csv), ht_n)
    /\ ht_pc' = "done"
    /\ UNCHANGED <<ht_in, ht_csv, ht_n>>
    /\ UNCHANGED <<sanVars, retryVars, srvVars, chunkVars, ingVars, fetchVars>>

TopNext == HashtagsTop

-----------------------------------------------------------------------------
(* Specifications                                                          *)

\* no offline script runs
JobIdle == ChunkIdle /\ IngIdle /\ FetchIdle /\ TopIdle

vars == <<sanVars, retryVars, srvVars, jobVars>>

InitSan == SanInit /\ RetryIdle /\ SrvIdle /\ JobIdle

NextSan == Sanitize

SpecSan == InitSan /\ [][NextSan]_vars

InitRetry == RetryInit /\ SanIdle /\ SrvIdle /\ JobIdle

SpecRetry == InitRetry /\ [][RetryNext]_vars

InitAsana == AsanaInit /\ SanIdle /\ RetryIdle /\ JobIdle

SpecAsana == InitAsana /\ [][AsanaNext]_vars

InitAsk == AskInit /\ SanIdle /\ RetryIdle /\ JobIdle
Spec == InitAsk /\ [][AskNext]_vars

InitChunk == ChunkInit /\ SanIdle /\ RetryIdle /\ SrvIdle /\ IngIdle /\ FetchIdle /\ TopIdle

SpecChunk == InitChunk /\ [][ChunkNext]_vars

InitIngest == IngInit /\ SanIdle /\ RetryIdle /\ SrvIdle /\ ChunkIdle /\ FetchIdle /\ TopIdle

SpecIngest == InitIngest /\ [][IngNext]_vars

InitFetch == FetchInit /\ SanIdle /\ RetryIdle /\ SrvIdle /\ ChunkIdle /\ IngIdle /\ TopIdle

SpecFetch == InitFetch /\ [][FetchNext]_vars

InitTop == TopInit /\ SanIdle /\ RetryIdle /\ SrvIdle /\ ChunkIdle /\ IngIdle /\ FetchIdle
SpecTop == InitTop /\ [][TopNext]_vars

-----------------------------------------------------------------------------
(* Claims about the sanitizer, checked under SpecSan                       *)

\* _URL_RE finds a match somewhere in t
ContainsUrl(t) == \E i \in 1..Len(t) : UrlMatchEnd(t, i) > 0

\* C5: the text returned by _sanitize_answer_format contains no
\* http:// or https:// URL, whatever the input text was.
C5_NoUrlSurvives == san_pc = "done" => ~ContainsUrl(san_out)

\* the lines the loop of the sanitizer sees: links removed, split, rstripped
InputLines(text) ==
    LET raw == SplitLines(StripLinks(text))
    IN  [i \in 1..Len(raw) |-> RStrip(raw[i])]

RECURSIVE ItemGroups(_, _)
\* the groups of '- ' items of the input: items that follow one another with
\* nothing but blank lines between them
ItemGroups(lines, cur) ==
    LET close == IF Len(cur) = 0 THEN <<>> ELSE <<cur>>
    IN  IF Len(lines) = 0 THEN close
        ELSE LET ln == Head(lines)
             IN  IF ~IsHeading(ln) /\ BulletPrefixEnd(ln) > 0
                 THEN ItemGroups(Tail(lines), Append(cur, ln))
                 ELSE IF Len(Strip(ln)) = 0 THEN ItemGroups(Tail(lines), cur)
                 ELSE close \o ItemGroups(Tail(lines), <<>>)

RECURSIVE OutputGroups(_, _)
\* the groups of bullets of the output: maximal runs of lines that start with
\* the bullet mark
OutputGroups(lines, cur) ==
    LET close == IF Len(cur) = 0 THEN <<>> ELSE <<cur>>
    IN  IF Len(lines) = 0 THEN close
        ELSE IF StartsWith(Head(lines), BulletMark)
             THEN OutputGroups(Tail(lines), Append(cur, Head(lines)))
             ELSE close \o OutputGroups(Tail(lines), <<>>)

\* an item with its '- ' replaced by the bullet mark
Rewritten(item) == BulletMark \o LStrip(Tail(Strip(item)))

\* what the claim says a group of items is emitted as
EmittedAs(g, max_bullets) ==
    IF Len(g) > max_bullets
    THEN [i \in 1..max_bullets |-> Rewritten(g[i])] \o <<EllipsisLine>>
    ELSE [i \in 1..Len(g) |-> Rewritten(g[i])]

SanInGroups == ItemGroups(InputLines(san_text), <<>>)
SanOutGroups == OutputGroups(SplitOn(san_out, NL), <<>>)

\* C6: each group of bullets of the output holds at most max_bullets of the
\* input's '- ' items: the first max_bullets of its group, in their order, each
\* rewritten to start with the bullet mark, and a single ellipsis line after
\* them when the group had more.
C6_BulletGroupsCapped ==
    san_pc = "done" =>
        /\ Len(SanOutGroups) = Len(SanInGroups)
        /\ \A g \in 1..Len(SanInGroups) :
              /\ SanOutGroups[g] = EmittedAs(SanInGroups[g], san_max)
              /\ Cardinality({i \in 1..Len(SanOutGroups[g]) :
                                 SanOutGroups[g][i] # EllipsisLine}) <= san_max
              /\ \A i \in 1..Len(SanOutGroups[g]) : StartsWith(SanOutGroups[g][i], BulletMark)

\* C6 witness: two groups, one of them longer than the default max_bullets
C6_Witness ==
    /\ san_pc = "done"
    /\ san_max = DEFAULT_MAX_BULLETS
    /\ Len(SanInGroups) = 2
    /\ \E g \in 1..2 : Len(SanInGroups[g]) > san_max
    /\ \E g \in 1..2 : Len(SanInGroups[g]) \in 1..san_max

-----------------------------------------------------------------------------
(* Claims about _post_with_retry, checked under SpecRetry                  *)

RtDone == rt_pc \in {"returned", "raised"}

\* a/b < c/d for fractions <<a, b>>, <<c, d>> with positive denominators
FracLess(x, y) == x[1] * y[2] < y[1] * x[2]

\* C9: at most max_retries POSTs; a further POST only after a response with
\* status 429, 500, 502, 503 or 504 and while attempts remain; the pause before
\* attempt n+1 is 1.5^n, pauses strictly increase, and there is no pause after
\* the final attempt.
C9_RetryBackoff ==
    /\ rt_posts <= (IF rt_max > 0 THEN rt_max ELSE 0)
    /\ \A k \in 1..(rt_posts - 1) :
          /\ rt_statuses[k] \in {429, 500, 502, 503, 504}
          /\ k < rt_max
    /\ \A n \in 1..Len(rt_sleeps) :
          /\ rt_sleeps[n][1] * Pow(2, n) = Pow(3, n) * rt_sleeps[n][2]
          /\ n < rt_max
          /\ n <= rt_posts
          /\ \A m \in 1..(n - 1) : FracLess(rt_sleeps[m], rt_sleeps[n])
    /\ rt_pc = "sleep" => rt_posts < rt_max
    /\ Len(rt_sleeps) >= rt_posts - 1
    /\ RtDone /\ rt_posts > 0 => Len(rt_sleeps) = rt_posts - 1
    /\ RtDone /\ rt_posts = 0 => Len(rt_sleeps) = 0

\* C9 witness: every attempt used, with a pause between them and none after
C9_Witness ==
    /\ RtDone
    /\ rt_max = MaxRetries
    /\ rt_posts = rt_max
    /\ Len(rt_sleeps) = rt_max - 1

\* C10: the call returns only a response that is no HTTP error; a
\* non-retryable error status raises at once, a retryable status on the last
\* attempt raises the HTTP error of that response, and max_retries <= 0 raises
\* with no POST issued; a call that has neither returned nor raised can go on.
C10_NeverReturnsError ==
    /\ rt_pc = "returned" =>
          /\ rt_posts >= 1
          /\ Len(rt_statuses) = rt_posts
          /\ rt_result = <<"response", rt_statuses[rt_posts]>>
          /\ ~(rt_statuses[rt_posts] >= 400 /\ rt_statuses[rt_posts] <= 599)
    /\ \A k \in 1..Len(rt_statuses) :
          (/\ rt_statuses[k] >= 400
           /\ rt_statuses[k] <= 599
           /\ rt_statuses[k] \notin {429, 500, 502, 503, 504})
          => /\ k = Len(rt_statuses)
             /\ rt_posts = k
             /\ rt_pc = "raised"
             /\ rt_result = <<"HTTPError", rt_statuses[k]>>
    /\ (/\ rt_max >= 1
        /\ Len(rt_statuses) = rt_max
        /\ rt_statuses[rt_max] \in {429, 500, 502, 503, 504})
       => /\ rt_pc = "raised"
          /\ rt_result = <<"HTTPError", rt_statuses[rt_max]>>
    /\ rt_max <= 0 => rt_posts = 0 /\ rt_pc \in {"loop", "raised"}
    /\ rt_pc = "raised" => rt_result[1] # "response"
    /\ ~RtDone => ENABLED RetryNext

\* C10 witness: the last attempt was answered with a retryable status
C10_Witness ==
    /\ rt_pc = "raised"
    /\ rt_max = MaxRetries
    /\ Len(rt_statuses) = rt_max
    /\ rt_statuses[rt_max] = 503
    /\ rt_result = <<"HTTPError", 503>>

-----------------------------------------------------------------------------
(* Claims about the Asana cache, checked under SpecAsana                   *)

\* the entry of tasks:<g> is there and no older than its ttl
FreshEntry(g) == cache[g] # <<>> /\ now - cache[g][1].ts <= cache[g][1].ttl

\* C7: a call _list_tasks_for_project(gid) issues no Asana request exactly
\* when the entry of gid exists and is at most ttl old, and it then returns
\* the stored list (an empty one too) and leaves the cache alone; otherwise it
\* issues one request for the tasks of gid and, when that request succeeds,
\* returns the fetched list and replaces the entry of gid by that list stamped
\* with the current time (a failed request raises and leaves the cache alone).
C7_TtlCache ==
    [][(op_name = "none" /\ op_name' = "list_tasks") =>
         /\ (http' = <<>>) <=> FreshEntry(op_arg')
         /\ FreshEntry(op_arg') =>
               /\ resp' = [kind |-> "return", value |-> cache[op_arg'][1].val]
               /\ cache' = cache
         /\ ~FreshEntry(op_arg') =>
               /\ Len(http') = 1
               /\ http'[1][1] = "tasks"
               /\ http'[1][2] = op_arg'
               /\ http'[1][3] =>
                     /\ resp'.kind = "return"
                     /\ cache'[op_arg'] =
                            <<[val |-> resp'.value, ts |-> now, ttl |-> ASANA_CACHE_TTL]>>
                     /\ \A g \in Gids \ {op_arg'} : cache'[g] = cache[g]
               /\ ~http'[1][3] => resp'.kind = "raise" /\ cache' = cache]_vars

\* C7 witness: an empty stored list, exactly ttl old, was returned with no
\* request issued
C7_Witness ==
    /\ op_name = "list_tasks"
    /\ http = <<>>
    /\ resp = [kind |-> "return", value |-> <<>>]
    /\ cache[op_arg] # <<>>
    /\ cache[op_arg][1].val = <<>>
    /\ now - cache[op_arg][1].ts = cache[op_arg][1].ttl

\* C8: after a successful POST /asana/refresh, the cached task list of every
\* project of the response was fetched during that call: the call issued a
\* successful request for the tasks of the project.
C8_RefreshRefetches ==
    (op_name = "refresh" /\ resp.kind = "http" /\ resp.status = 200) =>
        \A i \in 1..Len(resp.body.projects) :
            (/\ resp.body.projects[i].gid # <<>>
             /\ cache[resp.body.projects[i].gid] # <<>>)
            => \E k \in 1..Len(http) :
                   http[k] = <<"tasks", resp.body.projects[i].gid, TRUE>>

-----------------------------------------------------------------------------
(* Claims about POST /ask, checked under Spec                              *)

AskServed == op_name \in {"ask_back", "ask_root"}

\* the request being served carries a non-empty question
QuestionGiven == op_arg.body \notin FaultyBodies /\ Len(Asked(op_arg.body).q) > 0

\* the place of a route in the priority order web, Asana, GA, hashtags, RAG
RouteRank(route) ==
    CASE route = "web" -> 1
      [] route = "asana" -> 2
      [] route = "ga" -> 3
      [] route = "hashtags" -> 4
      [] route = "rag" -> 5

\* the route a call belongs to
RouteOfCall(fn) ==
    CASE fn = "web_answer_updated" -> "web"
      [] fn = "asana_answer" -> "asana"
      [] fn = "_maybe_answer_ga" -> "ga"
      [] fn \in {"embed_text", "search", "chat_answer"} -> "rag"
      [] OTHER -> "hashtags"

\* the question of the request being served triggers the route (the GA and
\* RAG blocks have no trigger of their own: they run whenever they are reached)
Triggers(route) ==
    CASE route = "web" ->
            WebTriggered(cfg, Asked(op_arg.body).q_lower, op_arg.body.mode)
      [] route = "asana" -> AsanaTriggered(cfg, Asked(op_arg.body).q_lower)
      [] route = "hashtags" -> HashtagTriggered(Asked(op_arg.body).q_lower)
      [] OTHER -> TRUE

TriedRoutes == {tried[i].route : i \in 1..Len(tried)}

\* C1: serving a non-empty question, back/server.py tries its routes in the
\* order web, Asana, GA, hashtags, RAG: the routes tried are of increasing
\* rank, every route tried but the last declined (and is web or GA), the last
\* one produced the response, a route was tried only if the question triggers
\* it, each route ranked before the last one was either tried or not
\* triggered, and the calls made are those of the routes tried, in that order.
C1_RoutesInPriorityOrder ==
    (op_name = "ask_back" /\ QuestionGiven) =>
        /\ Len(tried) >= 1
        /\ \A i \in 1..(Len(tried) - 1) :
              /\ RouteRank(tried[i].route) < RouteRank(tried[i + 1].route)
              /\ tried[i].outcome = "declined"
              /\ tried[i].route \in {"web", "ga"}
        /\ tried[Len(tried)].outcome \in {"answered", "raised"}
        /\ (tried[Len(tried)].outcome = "answered") <=> (resp.status = 200)
        /\ \A route \in TriedRoutes : Triggers(route)
        /\ \A route \in {"web", "asana", "ga", "hashtags", "rag"} :
              (RouteRank(route) < RouteRank(tried[Len(tried)].route) /\ Triggers(route))
              => route \in TriedRoutes
        /\ \A i \in 1..Len(calls) : RouteOfCall(calls[i].fn) \in TriedRoutes
        /\ \A route \in TriedRoutes : \E i \in 1..Len(calls) : RouteOfCall(calls[i].fn) = route
        /\ \A i \in 1..(Len(calls) - 1) :
              RouteRank(RouteOfCall(calls[i].fn)) <= RouteRank(RouteOfCall(calls[i + 1].fn))

\* C1 witness: web answered with text that sanitizes to nothing, GA returned
\* None, and the hashtag route produced the response
C1_Witness ==
    /\ op_name = "ask_back"
    /\ Len(tried) = 3
    /\ tried[1] = [route |-> "web", outcome |-> "declined"]
    /\ tried[2] = [route |-> "ga", outcome |-> "declined"]
    /\ tried[3] = [route |-> "hashtags", outcome |-> "answered"]
    /\ op_arg.env.gacsv.kind = "ok"
    /\ resp.status = 200

RagCalls == {"embed_text", "search", "chat_answer"}

\* C2: when back/server.py answers from Asana, the GA CSV or the hashtags CSV,
\* the request calls none of embed_text, search and chat_answer; a request
\* that calls one of them tried the RAG route and got no answer from a
\* structured fallback.
C2_FallbackMakesNoRagCall ==
    op_name = "ask_back" =>
        /\ (\E i \in 1..Len(tried) :
                /\ tried[i].route \in {"asana", "ga", "hashtags"}
                /\ tried[i].outcome = "answered")
           => \A k \in 1..Len(calls) : calls[k].fn \notin RagCalls
        /\ (\E k \in 1..Len(calls) : calls[k].fn \in RagCalls)
           => /\ "rag" \in TriedRoutes
              /\ \A i \in 1..Len(tried) :
                    tried[i].route \in {"asana", "ga", "hashtags"}
                    => tried[i].outcome = "declined"

\* C2 witness: the GA CSV answered a question
C2_Witness ==
    /\ op_name = "ask_back"
    /\ tried # <<>>
    /\ tried[Len(tried)] = [route |-> "ga", outcome |-> "answered"]
    /\ resp.status = 200
    /\ calls # <<>>

\* the hits the search of the request being served returned
SearchHits == op_arg.env.search.hits

SearchReturned == AskServed /\ QuestionGiven /\ op_arg.env.search.kind = "ok"

RECURSIVE NonEmptyTexts(_)
\* the non-empty `text` payloads of the hits, in rank order
NonEmptyTexts(hits) ==
    IF Len(hits) = 0 THEN <<>>
    ELSE (IF /\ Head(hits).payload # <<>>
             /\ Head(hits).payload[1].text # <<>>
             /\ Len(Head(hits).payload[1].text[1]) > 0
          THEN <<Head(hits).payload[1].text[1]>>
          ELSE <<>>)
         \o NonEmptyTexts(Tail(hits))

RECURSIVE JoinedBySeparator(_)
\* the texts with "\n\n---\n\n" between each two neighbours
JoinedBySeparator(texts) ==
    IF Len(texts) = 0 THEN <<>>
    ELSE IF Len(texts) = 1 THEN texts[1]
    ELSE texts[1] \o <<NL, NL, "-", "-", "-", NL, NL>> \o JoinedBySeparator(Tail(texts))

\* t is s cut to its first n characters
IsCutOf(t, s, n) ==
    /\ Len(t) = (IF Len(s) < n THEN Len(s) ELSE n)
    /\ \A i \in 1..Len(t) : t[i] = s[i]

\* C3: in both servers, every context handed to chat_answer is the non-empty
\* text payloads of the hits search returned, in rank order, joined by
\* "\n\n---\n\n" and cut to the first MAX_CONTEXT_CHARS characters; it is never
\* longer than MAX_CONTEXT_CHARS, and chat_answer is called with a context
\* only after search returned.
C3_ContextFromHits ==
    AskServed =>
        \A k \in 1..Len(calls) :
            calls[k].fn = "chat_answer" =>
                /\ op_arg.env.search.kind = "ok"
                /\ IsCutOf(calls[k].arg, JoinedBySeparator(NonEmptyTexts(SearchHits)),
                           MAX_CONTEXT_CHARS)
                /\ Len(calls[k].arg) <= MAX_CONTEXT_CHARS

\* C3 witness: two hits with text, whose joined texts are longer than
\* MAX_CONTEXT_CHARS, so that chat_answer got the cut context
C3_Witness ==
    /\ SearchReturned
    /\ Len(NonEmptyTexts(SearchHits)) = 2
    /\ Len(JoinedBySeparator(NonEmptyTexts(SearchHits))) > MAX_CONTEXT_CHARS
    /\ \E k \in 1..Len(calls) :
          calls[k].fn = "chat_answer" /\ Len(calls[k].arg) = MAX_CONTEXT_CHARS

\* the text has a character that is not white space
NonBlank(t) == \E i \in 1..Len(t) : t[i] \notin WhiteSpace

\* C4: in both servers chat_answer is called only with a non-blank context;
\* when search returned no hit with non-empty text, the response has status
\* 200, its answer is "I don<rsquo>t know from the current dataset." and the
\* request made no call to chat_answer.
C4_NoChatWithoutContext ==
    AskServed =>
        /\ \A k \in 1..Len(calls) :
              calls[k].fn = "chat_answer" => NonBlank(calls[k].arg)
        /\ (SearchReturned /\ Len(NonEmptyTexts(SearchHits)) = 0) =>
              /\ resp.kind = "http"
              /\ resp.status = 200
              /\ resp.body.answer = <<MsgDontKnow>>
              /\ resp.body.error = <<>>
              /\ \A k \in 1..Len(calls) : calls[k].fn # "chat_answer"
              /\ op_arg.env.chat.kind = "unasked"

\* C4 witness: search returned hits, none of them with text, and the fixed
\* answer was given
C4_Witness ==
    /\ SearchReturned
    /\ Len(SearchHits) = MaxHits
    /\ Len(NonEmptyTexts(SearchHits)) = 0
    /\ resp.status = 200
    /\ resp.body.answer = <<MsgDontKnow>>
    /\ calls[Len(calls)].fn = "search"

-----------------------------------------------------------------------------
(* Claims about the offline scripts                                        *)

\* the whitespace-normalized text of the call
ChunkedText == NormalizeWs(ch_text)

\* the window the k-th chunk (k = 0, 1, ...) is cut from
ChunkWindow(T, k) ==
    Slice(T, k * (ch_size - ch_overlap), k * (ch_size - ch_overlap) + ch_size)

\* the chunks are the windows whose start index is below len(T)
ChunksAreWindows ==
    /\ Len(ch_out) = Cardinality({ k \in 0..Len(ChunkedText) :
                                       k * (ch_size - ch_overlap) < Len(ChunkedText) })
    /\ \A k \in 1..Len(ch_out) : ch_out[k] = ChunkWindow(ChunkedText, k - 1)

\* every chunk is non-empty and at most size long
ChunksBounded == \A k \in 1..Len(ch_out) : Len(ch_out[k]) \in 1..ch_size

\* the last n characters of t
LastChars(t, n) == SubSeq(t, Len(t) - n + 1, Len(t))

\* chunk k begins with the last `overlap` characters of a full-length
\* predecessor
OverlapsPredecessor(k) ==
    /\ Len(ch_out[k - 1]) = ch_size
    /\ Len(ch_out[k]) >= ch_overlap
    /\ SubSeq(ch_out[k], 1, ch_overlap) = LastChars(ch_out[k - 1], ch_overlap)

\* the first chunk followed by every later chunk minus its overlap is T
ChunksReproduceText ==
    ConcatAll([k \in 1..Len(ch_out) |->
                  IF k = 1 THEN ch_out[k] ELSE DropChars(ch_out[k], ch_overlap)])
        = ChunkedText

\* C11: _chunk yields the windows of the normalized text: every chunk is
\* non-empty and at most size long, each chunk after the first begins with
\* the last `overlap` characters of a full-length predecessor, the chunks
\* minus their overlaps reproduce the text, and empty text yields no chunk
C11_ChunksOverlap ==
    ch_pc = "done" =>
        /\ ChunksAreWindows
        /\ ChunksBounded
        /\ \A k \in 2..Len(ch_out) : OverlapsPredecessor(k)
        /\ ChunksReproduceText
        /\ (Len(ChunkedText) = 0 => ch_out = <<>>)

RECURSIVE ExpectedPieces(_)
\* the chunks of the rows with non-empty text, in the order of the rows
ExpectedPieces(rows) ==
    IF Len(rows) = 0 THEN <<>>
    ELSE (IF rows_from_csv(Head(rows)) = <<>> THEN <<>>
          ELSE chunk(rows_from_csv(Head(rows))[1].text, INGEST_SIZE, INGEST_OVERLAP))
         \o ExpectedPieces(Tail(rows))

\* the embed_text calls that returned
Embedded == SelectSeq(ing_embeds, LAMBDA c : c.ok)

\* the points passed to upsert_points so far, in order
UpsertedPoints == ConcatAll([i \in 1..Len(ing_upserts) |-> ing_upserts[i].points])

\* every chunk was embedded once and its point upserted once
EachChunkOnce ==
    /\ [i \in 1..Len(ing_embeds) |-> ing_embeds[i].text] = ExpectedPieces(IngRows)
    /\ Len(UpsertedPoints) = Len(ing_embeds)
    /\ \A k \in 1..Len(UpsertedPoints) :
          /\ UpsertedPoints[k].id = k
          /\ UpsertedPoints[k].vector = Embedding(ing_embeds[k].text)
          /\ UpsertedPoints[k].payload.text = ing_embeds[k].text

\* every batch has BATCH points, except possibly a smaller final one
BatchesFull ==
    \A i \in 1..Len(ing_upserts) :
        /\ Len(ing_upserts[i].points) \in 1..BATCH
        /\ Len(ing_upserts[i].points) < BATCH => i = Len(ing_upserts) /\ ing_pc # "run"

\* C12 as stated: each chunk is embedded once and upserted once, batches
\* have BATCH points except a smaller final one, total plus len(pending) is
\* at every moment the number of chunks embedded, and pending is empty when
\* main returns
C12_PendingEmptyAtReturn ==
    ing_script = "ingest_to_qdrant" =>
        /\ BatchesFull
        /\ ing_total + Len(ing_pending) = Len(Embedded)
        /\ ing_pc = "returned" => EachChunkOnce /\ ing_pending = <<>>

\* C12, amended: each chunk is embedded once and upserted once, batches have
\* BATCH points except a smaller final one, total plus len(pending) is the
\* number of chunks embedded until main returns; when main returns total is
\* that number, and pending is empty or still holds the final batch upserted
C12_IngestBatches ==
    ing_script = "ingest_to_qdrant" =>
        /\ BatchesFull
        /\ ing_pc # "returned" => ing_total + Len(ing_pending) = Len(Embedded)
        /\ ing_pc = "returned" =>
              /\ EachChunkOnce
              /\ ing_total = Len(Embedded)
              /\ \/ ing_pending = <<>>
                 \/ /\ Len(ing_pending) < BATCH
                    /\ ing_pending = ing_upserts[Len(ing_upserts)].points

\* main returned after a full batch and a smaller final one
C12_Witness ==
    /\ ing_script = "ingest_to_qdrant" /\ ing_pc = "returned"
    /\ Len(ing_upserts) >= 2
    /\ Len(ing_upserts[1].points) = BATCH
    /\ Len(ing_upserts[Len(ing_upserts)].points) < BATCH

\* the fields of a payload
PayloadFields == {"source", "title", "platform", "text"}

\* C13: every point upserted by an ingestion script carries a payload with
\* the fields source, title, platform and text, the text being the one that
\* was embedded to produce the point's vector
C13_PayloadFields ==
    \A k \in 1..Len(UpsertedPoints) :
        /\ DOMAIN UpsertedPoints[k].payload = PayloadFields
        /\ UpsertedPoints[k].vector = Embedding(UpsertedPoints[k].payload.text)

\* a fetcher has written its file
FileWritten == f_pc \in {"written", "loaded"}

\* the text a document fetcher extracted from a file: none when the parser
\* raised
ExtractedText(doc) ==
    IF doc.raises THEN <<>>
    ELSE IF f_script = "fetch_drive_export" THEN clean_text(doc.raw)
    ELSE doc.raw

\* the paths of the files that pass Keep, in the order of the files
SourcesOf(docs, Keep(_)) ==
    With(SelectSeq(docs, Keep), LAMBDA kept : [i \in 1..Len(kept) |-> kept[i].path])

\* the file holds the header and one record for each row written
FileHoldsRows ==
    /\ f_file # <<>>
    /\ ReadCsv(f_file[1]).fieldnames = f_header
    /\ Len(ReadCsv(f_file[1]).rows) = Len(f_rows)

\* the rows have exactly the fields of the header
RowsHaveFields(fieldnames) ==
    /\ f_header = fieldnames
    /\ \A i \in 1..Len(f_rows) :
          DOMAIN f_rows[i] = { fieldnames[j] : j \in 1..Len(fieldnames) }

YmdDate(ds) ==
    IF Len(ds) = 8 /\ IsDigits(ds)
    THEN DateOf(NatOf(SubSeq(ds, 1, 4)), NatOf(SubSeq(ds, 5, 6)), NatOf(SubSeq(ds, 7, 8)))
    ELSE <<>>

\* C20: every row fetch_ga_daily.run wrote is loaded by _load_ga_rows as one
\* row with the same date, country and page (empty read as None) and the
\* same users and events as integers; no row is dropped or merged
C20_GaRoundTrip ==
    f_pc = "loaded" =>
        /\ Len(f_loaded) = Len(f_rows)
        /\ \A i \in 1..Len(f_loaded) :
              /\ f_loaded[i].date = YmdDate(f_rows[i][StrDate])
              /\ f_loaded[i].country = f_rows[i][StrCountry]
              /\ f_loaded[i].page = f_rows[i][StrPage]
              /\ IsDigits(f_rows[i][StrActiveUsers])
              /\ f_loaded[i].users = NatOf(f_rows[i][StrActiveUsers])
              /\ IsDigits(f_rows[i][StrEventCount])
              /\ f_loaded[i].events = NatOf(f_rows[i][StrEventCount])

\* two rows were written and loaded, one with a comma and a quote in its
\* fields, one with an empty country
C20_Witness ==
    /\ f_pc = "loaded" /\ Len(f_loaded) = 2
    /\ \E i \in 1..2 : Contains(f_rows[i][StrPage], <<QUOTE>>)
                       /\ Contains(f_rows[i][StrCountry], <<COMMA>>)
                       /\ f_loaded[i].users > 0
    /\ \E i \in 1..2 : f_rows[i][StrCountry] = <<>>

-----------------------------------------------------------------------------
(* Claims about the GA trigger, error messages, the closer, the hashtag    *)
(* fallback and requests without a question                                *)

\* the question of the request being served, lowered
QLower == Asked(op_arg.body).q_lower

\* the question mentions GA: `ga` or `analytics` as a whole word, or
\* `google analytics`
MentionsGa ==
    \/ ContainsWord(QLower, <<"g","a">>)
    \/ ContainsWord(QLower, <<"a","n","a","l","y","t","i","c","s">>)
    \/ Contains(QLower, <<"g","o","o","g","l","e",SP,"a","n","a","l","y","t","i","c","s">>)

\* the question contains one of the GA keywords
HasGaKeyword ==
    \E kw \in { <<"t","o","p",SP,"c","o","u","n","t","r","i","e","s">>,
                <<"t","o","p",SP,"p","a","g","e","s">>,
                <<"b","u","s","i","e","s","t">>,
                <<"t","o","t","a","l",SP,"a","c","t","i","v","e",SP,"u","s","e","r","s">>,
                <<"d","a","i","l","y",SP,"a","c","t","i","v","e",SP,"u","s","e","r","s">>,
                <<"d","a","i","l","y",SP,"u","s","e","r","s">> } :
        Contains(QLower, kw)

\* C15: in back/server.py the GA route answers only a question that mentions
\* GA or contains a GA keyword, with ENABLE_GA on and a GA CSV that is there
\* and has rows; in every other case _maybe_answer_ga returned None: the GA
\* route declined, produced no response, and the routes after it went on.
C15_GaTriggerStrict ==
    (op_name = "ask_back" /\ QuestionGiven) =>
        \A i \in 1..Len(tried) :
            tried[i].route = "ga" =>
                /\ tried[i].outcome \in {"answered", "declined"}
                /\ tried[i].outcome = "answered" =>
                      /\ cfg.ga
                      /\ MentionsGa \/ HasGaKeyword
                      /\ op_arg.env.gacsv = [kind |-> "ok", csv |-> "rows"]
                /\ tried[i].outcome = "declined" => i < Len(tried)

\* C15 witness: a question with `ga` inside a word and no GA keyword, served
\* with ENABLE_GA on: the GA route declined and the RAG route answered
C15_Witness ==
    /\ op_name = "ask_back"
    /\ cfg.ga
    /\ Contains(QLower, <<"g","a">>)
    /\ ~MentionsGa /\ ~HasGaKeyword
    /\ \E i \in 1..Len(tried) : tried[i] = [route |-> "ga", outcome |-> "declined"]
    /\ tried[Len(tried)] = [route |-> "rag", outcome |-> "answered"]

\* the text holds an sk- key, a Bearer token or a long run of alphanumerics
HoldsSecret(t) ==
    \/ \E i \in 1..Len(t) :
          /\ i + 2 + SK_MIN <= Len(t)
          /\ SubSeq(t, i, i + 2) = <<"s","k","-">>
          /\ \A k \in 1..SK_MIN : t[i + 2 + k] \in KeyChars
    \/ \E i \in 1..Len(t) : \E w \in 1..Len(t) :
          /\ i + 5 + w + BEARER_MIN <= Len(t)
          /\ SubSeq(t, i, i + 5) = <<"B","e","a","r","e","r">>
          /\ \A k \in 1..w : t[i + 5 + k] \in WhiteSpace
          /\ \A k \in 1..BEARER_MIN : t[i + 5 + w + k] \in BearerChars
    \/ \E i \in 1..Len(t) :
          /\ i + RUN_MIN - 1 <= Len(t)
          /\ \A k \in 0..(RUN_MIN - 1) : t[i + k] \in AlnumChars

\* str(e) of the exception that ended the request being served
RaisedMessage ==
    CASE tried = <<>> -> BodyFault(op_arg.body.fault).msg
      [] tried[Len(tried)].route = "web" -> op_arg.env.web.msg
      [] tried[Len(tried)].route = "asana" -> MsgAsanaError
      [] tried[Len(tried)].route = "rag" ->
            IF op_arg.env.embed.kind = "raise" THEN op_arg.env.embed.msg
            ELSE op_arg.env.chat.msg

\* the message part of the error returned: all of it with status 502, what
\* follows the exception's type and `: ` with status 500
ErrorMessagePart ==
    IF resp.status = 502 THEN resp.body.error
    ELSE DropChars(resp.body.error,
                   1 + FirstFrom(1, Len(resp.body.error),
                                 LAMBDA k : StartsWithAt(resp.body.error, k, <<":", SP>>)))

\* C16: every error back/server.py /ask returns with status 500 or 502 has a
\* message part that holds no sk- key, no Bearer token and no long run of
\* alphanumerics; when the exception message embeds a secret the message part
\* is the same text whichever the secret is, with [REDACTED] in its place,
\* and a message with no secret is returned as it is.
C16_SecretsRedacted ==
    (op_name = "ask_back" /\ resp.status \in {500, 502}) =>
        /\ ~HoldsSecret(ErrorMessagePart)
        /\ \A x \in Secrets :
              RaisedMessage = MsgBefore \o x \o MsgAfter
              => ErrorMessagePart = MsgBefore \o StrRedacted \o MsgAfter
        /\ ~HoldsSecret(RaisedMessage) => ErrorMessagePart = RaisedMessage

\* C16 witness: embed_text raised with a Bearer token in its message and the
\* 500 response carries the message with the token redacted
C16_Witness ==
    /\ op_name = "ask_back"
    /\ resp.status = 500
    /\ op_arg.env.embed.kind = "raise"
    /\ Contains(op_arg.env.embed.msg, StrBearer)
    /\ HoldsSecret(op_arg.env.embed.msg)
    /\ resp.body.error = TypedError(StrRuntimeError, MsgBefore \o StrRedacted \o MsgAfter)

\* C17: in server.py the answer of a RAG request that chat_answer answered
\* is the stripped content of the chat completion, with no closer appended.
C17_AnswerIsCompletion ==
    (op_name = "ask_root" /\ resp.status = 200 /\ op_arg.env.chat.kind = "ok") =>
        resp.body.answer = << Strip(op_arg.env.chat.content) >>

\* the hashtags CSV the request found is one the extractor wrote for a
\* corpus with hashtags in it
ExtractorWroteCsv ==
    /\ op_arg.env.hashtagcsv.kind = "ok"
    /\ \E c \in HashtagCounts :
          c # <<>> /\ op_arg.env.hashtagcsv.csv = <<extract_hashtags_csv(c)>>

\* C18: in server.py a hashtag question asked once the extractor has written
\* instagram_hashtags.csv is answered by the hashtag route with a bullet
\* list, and the request reaches neither the GA route nor embed_text, search
\* or chat_answer.
C18_HashtagFallbackGuaranteed ==
    (op_name = "ask_root" /\ QuestionGiven /\ HashtagTriggered(QLower)
     /\ ExtractorWroteCsv) =>
        /\ tried = << [route |-> "hashtags", outcome |-> "answered"] >>
        /\ resp.status = 200
        /\ Len(resp.body.answer[1]) > 0
        /\ \A k \in 1..Len(calls) :
              calls[k].fn \notin RagCalls \cup {"_maybe_answer_ga"}

\* the body is a JSON object whose question is missing, empty or only
\* whitespace
NoQuestionIn(body) ==
    /\ DOMAIN body = {"question", "mode"}
    /\ \/ body.question = <<>>
          \/ \A k \in 1..Len(body.question[1]) : body.question[1][k] \in WhiteSpace

\* C19: in both servers a request with a JSON object whose question is
\* missing, empty or only whitespace is answered with status 400 and error "Missing question"; no
\* route is tried, no call and no HTTP request is made, nothing is read, and
\* the cache stays as it was.
C19_MissingQuestion ==
    [][ (op_name = "none" /\ op_name' \in {"ask_back", "ask_root"}
         /\ NoQuestionIn(op_arg'.body)) =>
            /\ resp'.status = 400
            /\ resp'.body.error = <<"M","i","s","s","i","n","g",SP,
                                    "q","u","e","s","t","i","o","n">>
            /\ tried' = <<>>
            /\ calls' = <<>>
            /\ http' = <<>>
            /\ op_arg'.env = NoEnv
            /\ cache' = cache ]_vars

\* C19 witness: a blank question answered with 400 while the cache holds an
\* entry from an earlier request
C19_Witness ==
    /\ AskServed
    /\ op_arg.body.question = << <<SP, SP>> >>
    /\ resp.status = 400
    /\ tried = <<>>
    /\ cache # NoCache

-----------------------------------------------------------------------------
(* Claims about _hashtags_top                                              *)

\* the rows of the table the file was written from, none without a file
CsvRows == IF ht_in = <<>> THEN <<>> ELSE ht_in[1].rows

\* those of them with a tag: a non-blank text in a column named hashtag or tag
TaggedRows ==
    IF ht_in = <<>> THEN <<>>
    ELSE IF ht_in[1].cols[1] \notin { <<"h","a","s","h","t","a","g">>, <<"t","a","g">> }
    THEN <<>>
    ELSE SelectSeq(ht_in[1].rows,
                   LAMBDA r : \E k \in 1..Len(r.tag) : r.tag[k] \notin WhiteSpace)

\* the lines of the text returned, and those after its first
OutLines == SplitOn(ht_out, NL)
ListedLines == Tail(OutLines)

\* min(max(1, n), len)
TopCount(n, len) ==
    CHOOSE k \in 0..len :
        /\ k <= len /\ (n >= 1 => k <= n) /\ (n < 1 => k <= 1)
        /\ (k = len \/ (n >= 1 /\ k = n) \/ (n < 1 /\ k = 1))

\* the tag of a row as it is listed: with one '#' in front, none added to a
\* tag that has its own
ListedTag(tag) ==
    IF Strip(tag)[1] = "#" THEN Strip(tag) ELSE <<"#">> \o Strip(tag)

\* the lines list `rows` picked by f: each line shows its row's tag and count,
\* the counts do not increase down the list, and no row left out has a
\* count above the last one listed
ListsTopRows(lines, rows, f) ==
    /\ \A i, j \in DOMAIN f : i # j => f[i] # f[j]
    /\ \A i \in DOMAIN f :
          lines[i] = <<BULLET, SP>> \o ListedTag(rows[f[i]].tag)
                     \o <<SP, EMDASH, SP>> \o IntStr(rows[f[i]].val)
    /\ \A i \in DOMAIN f : i + 1 \in DOMAIN f => rows[f[i]].val >= rows[f[i + 1]].val
    /\ \A j \in 1..Len(rows) : \A i \in DOMAIN f :
          (\A h \in DOMAIN f : f[h] # j) => rows[j].val <= rows[f[i]].val

\* the text is a header with the count k and k lines listing top rows
IsTopList(k, rows) ==
    /\ Len(OutLines) = k + 1
    /\ OutLines[1] = <<"*","*","T","o","p",SP>> \o IntStr(k)
                     \o <<SP,"h","a","s","h","t","a","g","s","*","*">>
    /\ \E f \in [1..k -> 1..Len(rows)] : ListsTopRows(ListedLines, rows, f)

-----------------------------------------------------------------------------
(* Claims about /ask as a whole                                            *)

\* the body of a response carries the key: its value is there
Carries(field) == field # <<>>

\* C22: in both servers every request, whatever its body and whatever the
\* services do, ends with an HTTP response with a JSON body and no exception
\* leaves ask; the status is 200, 400, 500 or 502; a 200 response carries an
\* answer and a list of sources and no error; a 500 or 502 response carries
\* an error, the answer "" and the sources [].
C22_AskIsTotal ==
    AskServed =>
        /\ resp.kind = "http"
        /\ resp.status \in {200, 400, 500, 502}
        /\ DOMAIN resp.body = {"error", "answer", "sources"}
        /\ resp.status = 200 =>
              /\ Carries(resp.body.answer) /\ Carries(resp.body.sources)
              /\ resp.body.sources[1] \in Seq({"s1", "s2"})
              /\ ~Carries(resp.body.error)
        /\ resp.status \in {500, 502} =>
              /\ Len(resp.body.error) > 0
              /\ resp.body.answer = << <<>> >>
              /\ resp.body.sources = << <<>> >>
        /\ resp.status = 500 <=>
              \/ op_arg.body \in FaultyBodies
              \/ tried # <<>> /\ tried[Len(tried)].outcome = "raised"
                 /\ (cfg.app = "back" =>
                        \/ tried[Len(tried)].route = "asana"
                        \/ op_arg.env.embed.kind = "raise")
        /\ resp.status = 502 =>
              /\ cfg.app = "back"
              /\ tried[Len(tried)].outcome = "raised"

\* C22 witness: a body that is not JSON answered with 500 and the error of
\* get_json, the answer "" and no sources
C22_Witness ==
    /\ AskServed
    /\ op_arg.body.question = <<>>
    /\ DOMAIN op_arg.body = {"question", "mode", "fault"}
    /\ op_arg.body.fault = "not_json"
    /\ resp.status = 500
    /\ resp.body = [error |-> <<"B","a","d","R","e","q","u","e","s","t",":",SP,
                                "4","0","0",SP,"B","a","d",SP,"R","e","q","u","e","s","t">>,
                    answer |-> << <<>> >>, sources |-> << <<>> >>]

=============================================================================
